---- MODULE Spec2Model ----
(***************************************************************************)
(* Resume-Skill-Extractor: the skill matcher and scoring engine            *)
(* (app/services/jd_matcher.py), the job-description parser                *)
(* (app/services/jd_parser.py), text acquisition and the upload handlers   *)
(* (app/services/resume_parser.py, app/routers/resume.py) and the section  *)
(* segmenter with its field extractors (app/services/resume_extractor.py). *)
(*                                                                         *)
(* Conventions.  A Python str is a sequence of one-character strings.  An  *)
(* Optional value is a sequence of length 0 (None) or 1.  Floats are       *)
(* scaled integers: a weight is counted in tenths, a similarity in         *)
(* hundredths, an accumulated weight in thousandths, a reported percentage *)
(* in hundredths of a percent.  A call that raises yields a record whose   *)
(* exc field names the exception.                                          *)
(***************************************************************************)
EXTENDS Integers, Sequences, FiniteSets, TLC

VARIABLES
    resume_data,      \* matcher input: the resume record handed to match_resume
    job_description,  \* matcher input: the JobDescription
    model,            \* matcher input: the sentence embedder (cosine similarity table)
    match_result,     \* outcome of the last match_resume call
    lookup_skill,     \* _find_skill_match input: the required skill name
    skill_match,      \* outcome of the last _find_skill_match call
    jd_text,          \* JDParser.parse input: the text, as its words
    parsed_jd,        \* outcome of the last JDParser.parse call
    request,          \* text acquisition input: entry point, declared kind, document
    files,            \* the paths that exist in the temporary and upload directories
    acquired,         \* outcome of the last text-acquisition call
    resume_text,      \* ResumeExtractor input: the text, as its lines of words
    extracted,        \* the sections and the result of the last extract_all call
    raw_skill,        \* _normalize_skill input: a skill name
    normalized,       \* the results of normalising it once and twice
    clock,            \* concurrent uploads: the second datetime.utcnow() falls in
    upload_dir,       \* concurrent uploads: the content each path of UPLOAD_DIR holds
    calls,            \* concurrent uploads: each upload_resume call's position and locals
    years_skill,      \* _get_skill_years input: the skill name
    years_resume,     \* _get_skill_years input: the resume record
    skill_years,      \* outcome of the last _get_skill_years call
    resumes_collection, \* tag store: the tags list of each stored resume document
    tag_collection,   \* tag store: the names of the tag documents, in insertion order
    tag_call          \* the last tag operation: its arguments and the list it found

matcherVars == <<resume_data, job_description, model, match_result>>

findVars == <<lookup_skill, skill_match>>

parserVars == <<jd_text, parsed_jd>>

uploadVars == <<request, files, acquired>>

extractVars == <<resume_text, extracted>>

normalizeVars == <<raw_skill, normalized>>

concurrentVars == <<clock, upload_dir, calls>>

yearsVars == <<years_skill, years_resume, skill_years>>

tagVars == <<resumes_collection, tag_collection, tag_call>>

vars == <<matcherVars, findVars, parserVars, uploadVars, extractVars, normalizeVars,
          concurrentVars, yearsVars, tagVars>>

-----------------------------------------------------------------------------
(* Generic helpers *)

None == <<>>

Some(v) == <<v>>

SeqsUpTo(S, n) == UNION {[1..k -> S] : k \in 0..n}

Min(a, b) == IF a <= b THEN a ELSE b

\* round(n / d) to the nearest integer, ties to even (d > 0)
RoundDiv(n, d) ==
    LET q == n \div d
        r == n % d
    IN  IF 2 * r < d THEN q
        ELSE IF 2 * r > d THEN q + 1
        ELSE IF q % 2 = 0 THEN q ELSE q + 1

-----------------------------------------------------------------------------
(* Strings *)

UpperChars == <<"A","B","C","D","E","F","G","H","I","J","K","L","M",
                "N","O","P","Q","R","S","T","U","V","W","X","Y","Z">>

LowerChars == <<"a","b","c","d","e","f","g","h","i","j","k","l","m",
                "n","o","p","q","r","s","t","u","v","w","x","y","z">>

Whitespace == {" ", "\t", "\n", "\r"}

\* str.lower() on one character
LowerChar(c) ==
    IF \E i \in DOMAIN UpperChars : UpperChars[i] = c
    THEN LowerChars[CHOOSE i \in DOMAIN UpperChars : UpperChars[i] = c]
    ELSE c

\* str.lower()
Lower(s) == [i \in DOMAIN s |-> LowerChar(s[i])]

\* str.strip(): drop leading and trailing whitespace
Strip(s) ==
    LET keep == {i \in DOMAIN s : s[i] \notin Whitespace}
    IN  IF keep = {} THEN <<>>
        ELSE LET lo == CHOOSE i \in keep : \A j \in keep : i <= j
                 hi == CHOOSE i \in keep : \A j \in keep : j <= i
             IN  SubSeq(s, lo, hi)

\* str.replace(c, ''): drop every occurrence of the character c
RemoveChar(s, c) == SelectSeq(s, LAMBDA x : x # c)

\* a in b for two str: a occurs as a contiguous substring of b
IsSubstring(a, b) ==
    \E i \in 1..(Len(b) - Len(a) + 1) : SubSeq(b, i, i + Len(a) - 1) = a

\* x in list
InList(x, list) == \E i \in DOMAIN list : list[i] = x

-----------------------------------------------------------------------------
(* JDMatcher: taxonomy and normalisation *)

related_skills ==
  <<
    [category |-> "python", related |-> <<
        <<"d", "j", "a", "n", "g", "o">>,
        <<"f", "l", "a", "s", "k">>,
        <<"f", "a", "s", "t", "a", "p", "i">>,
        <<"p", "y", "r", "a", "m", "i", "d">>>>],
    [category |-> "javascript", related |-> <<
        <<"t", "y", "p", "e", "s", "c", "r", "i", "p", "t">>,
        <<"n", "o", "d", "e", "j", "s">>,
        <<"r", "e", "a", "c", "t">>,
        <<"v", "u", "e">>,
        <<"a", "n", "g", "u", "l", "a", "r">>>>],
    [category |-> "java", related |-> <<
        <<"s", "p", "r", "i", "n", "g">>,
        <<"h", "i", "b", "e", "r", "n", "a", "t", "e">>,
        <<"j", "u", "n", "i", "t">>,
        <<"m", "a", "v", "e", "n">>>>],
    [category |-> "cloud", related |-> <<
        <<"a", "w", "s">>,
        <<"a", "z", "u", "r", "e">>,
        <<"g", "c", "p">>,
        <<"d", "o", "c", "k", "e", "r">>,
        <<"k", "u", "b", "e", "r", "n", "e", "t", "e", "s">>>>],
    [category |-> "database", related |-> <<
        <<"s", "q", "l">>,
        <<"m", "y", "s", "q", "l">>,
        <<"p", "o", "s", "t", "g", "r", "e", "s", "q", "l">>,
        <<"m", "o", "n", "g", "o", "d", "b">>,
        <<"r", "e", "d", "i", "s">>>>],
    [category |-> "testing", related |-> <<
        <<"j", "u", "n", "i", "t">>,
        <<"p", "y", "t", "e", "s", "t">>,
        <<"j", "e", "s", "t">>,
        <<"s", "e", "l", "e", "n", "i", "u", "m">>,
        <<"c", "y", "p", "r", "e", "s", "s">>>>],
    [category |-> "version_control", related |-> <<
        <<"g", "i", "t">>,
        <<"s", "v", "n">>,
        <<"m", "e", "r", "c", "u", "r", "i", "a", "l">>>>],
    [category |-> "ci_cd", related |-> <<
        <<"j", "e", "n", "k", "i", "n", "s">>,
        <<"t", "r", "a", "v", "i", "s">>,
        <<"g", "i", "t", "l", "a", "b", "-", "c", "i">>,
        <<"g", "i", "t", "h", "u", "b", "-", "a", "c", "t", "i", "o", "n", "s">>>>]
  >>

\* skill.lower().strip().replace('-', '').replace(' ', '')
_normalize_skill(skill) ==
    RemoveChar(RemoveChar(Strip(Lower(skill)), "-"), " ")

\* map(self._normalize_skill, related) for each category, in dictionary order
NormalizedRelated ==
    [c \in DOMAIN related_skills |->
        [i \in DOMAIN related_skills[c].related |->
            _normalize_skill(related_skills[c].related[i])]]

\* x in map(self._normalize_skill, related) for the related list of category c
InNormalized(x, c) ==
    \E i \in DOMAIN NormalizedRelated[c] : NormalizedRelated[c][i] = x

-----------------------------------------------------------------------------
(* JDMatcher: experience years *)

\* float(date.split()[-1]): a date string is its whitespace-separated tokens,
\* each one a numeral (isNum, with its value) or some other word.  An empty
\* token list raises IndexError, a last token that is no numeral ValueError;
\* both are caught by the caller.
YearOf(date) ==
    IF date.tokens = <<>> THEN [ok |-> FALSE, val |-> 0]
    ELSE IF date.tokens[Len(date.tokens)].isNum
         THEN [ok |-> TRUE, val |-> date.tokens[Len(date.tokens)].val]
         ELSE [ok |-> FALSE, val |-> 0]

\* the try block: end_year - start_year, nothing when a token does not parse
YearsBetween(start_year, end_year) ==
    IF start_year.ok /\ end_year.ok THEN end_year.val - start_year.val ELSE 0

\* One iteration of the loop of _get_skill_years: the years the entry adds,
\* or AttributeError when exp.description is None (None has no lower())
ExperienceYears(skill, exp) ==
    IF exp.description = None THEN [exc |-> "AttributeError", add |-> 0]
    ELSE IF ~IsSubstring(_normalize_skill(skill), _normalize_skill(exp.description[1]))
         THEN [exc |-> "none", add |-> 0]
    ELSE IF exp.start_date # None /\ exp.start_date[1].truthy
            /\ exp.end_date # None /\ exp.end_date[1].truthy
         THEN [exc |-> "none",
               add |-> YearsBetween(YearOf(exp.start_date[1]), YearOf(exp.end_date[1]))]
    ELSE [exc |-> "none", add |-> 0]

RECURSIVE SumYears(_, _, _, _)

\* the loop of _get_skill_years after the entry at i has given r
SumYearsFrom(skill, experience, i, total_years, r) ==
    IF r.exc # "none" THEN [exc |-> r.exc, total |-> total_years]
    ELSE SumYears(skill, experience, i + 1, total_years + r.add)

SumYears(skill, experience, i, total_years) ==
    IF i > Len(experience) THEN [exc |-> "none", total |-> total_years]
    ELSE SumYearsFrom(skill, experience, i, total_years,
                      ExperienceYears(skill, experience[i]))

\* round(total_years, 1) if total_years > 0 else None
YearsResult(r) ==
    [exc |-> r.exc,
     years |-> IF r.exc = "none" /\ r.total > 0 THEN Some(r.total) ELSE None]

\* returns [exc, years]: years is None unless the total is positive
_get_skill_years(skill, resume) ==
    YearsResult(SumYears(skill, resume.experience, 1, 0))

-----------------------------------------------------------------------------
(* JDMatcher: finding one match *)

RelatedThreshold == 70

TaxonomySimilarity == 80

\* the first index of a set of list indexes (0 when it is empty): where a
\* for loop with a return stops
FirstIndex(hits) ==
    IF hits = {} THEN 0 ELSE CHOOSE i \in hits : \A j \in hits : i <= j

\* a variant of the inner loop that keeps the last member of the list
FirstMember_Last(resume_skills, c) ==
    IF \A i \in DOMAIN resume_skills :
           ~InNormalized(_normalize_skill(resume_skills[i]), c)
    THEN 0
    ELSE CHOOSE i \in DOMAIN resume_skills :
             /\ InNormalized(_normalize_skill(resume_skills[i]), c)
             /\ \A j \in DOMAIN resume_skills :
                   InNormalized(_normalize_skill(resume_skills[j]), c) => j <= i

\* The inner loop of _find_related_skill: first resume skill that is a member
\* of the related list of category c (0 when there is none)
FirstMember(resume_skills, c) ==
    FirstIndex({i \in DOMAIN resume_skills :
                   InNormalized(_normalize_skill(resume_skills[i]), c)})

RECURSIVE TaxonomyMatch(_, _, _)

\* category c of the outer loop, member being the inner loop's result
TaxonomyStep(req_normalized, resume_skills, c, member) ==
    IF InNormalized(req_normalized, c) /\ member # 0 THEN member
    ELSE TaxonomyMatch(req_normalized, resume_skills, c + 1)

\* The outer loop of _find_related_skill over the taxonomy, in dictionary order
TaxonomyMatch(req_normalized, resume_skills, c) ==
    IF c > Len(related_skills) THEN 0
    ELSE TaxonomyStep(req_normalized, resume_skills, c, FirstMember(resume_skills, c))

\* np.argmax over the cosine similarities: first index of the largest value
ArgMax(required_skill, resume_skills, emb) ==
    CHOOSE i \in DOMAIN resume_skills :
        /\ \A j \in DOMAIN resume_skills :
              emb[<<required_skill, resume_skills[j]>>]
                  <= emb[<<required_skill, resume_skills[i]>>]
        /\ \A j \in 1..(i - 1) :
              emb[<<required_skill, resume_skills[j]>>]
                  < emb[<<required_skill, resume_skills[i]>>]

\* the semantic fallback once best_match_idx is known
EmbeddingMatch(required_skill, resume_skills, emb, best_match_idx) ==
    IF emb[<<required_skill, resume_skills[best_match_idx]>>] > RelatedThreshold
    THEN Some([skill |-> resume_skills[best_match_idx],
               similarity |-> emb[<<required_skill, resume_skills[best_match_idx]>>]])
    ELSE None

\* _find_related_skill once the taxonomy loops have given t
RelatedFrom(required_skill, resume_skills, emb, t) ==
    IF t # 0
    THEN Some([skill |-> resume_skills[t], similarity |-> TaxonomySimilarity])
    ELSE EmbeddingMatch(required_skill, resume_skills, emb,
                        ArgMax(required_skill, resume_skills, emb))

\* returns None or Some([skill, similarity])
_find_related_skill(required_skill, resume_skills, emb) ==
    IF resume_skills = <<>> THEN None
    ELSE RelatedFrom(required_skill, resume_skills, emb,
                     TaxonomyMatch(_normalize_skill(required_skill), resume_skills, 1))

\* First resume skill whose normalised form equals the required one (0: none)
DirectIndex(required_skill, resume_skills) ==
    FirstIndex({i \in DOMAIN resume_skills :
                   _normalize_skill(resume_skills[i]) = _normalize_skill(required_skill)})

SkillMatch(skill, match_type, years, similarity_score, related_skill) ==
    [skill |-> skill, match_type |-> match_type, years |-> years,
     similarity_score |-> similarity_score, related_skill |-> related_skill]

\* the SkillMatch returned once _get_skill_years has given y
MatchWithYears(skill, match_type, similarity_score, related_skill, y) ==
    [exc |-> y.exc,
     match |-> IF y.exc # "none" THEN None
               ELSE Some(SkillMatch(skill, match_type, y.years, similarity_score,
                                    related_skill))]

\* the second half of _find_skill_match, related_match being the lookup's result
RelatedResult(required_skill, resume, related_match) ==
    IF related_match # None
    THEN MatchWithYears(related_match[1].skill, "related", related_match[1].similarity,
                        Some(required_skill),
                        _get_skill_years(related_match[1].skill, resume))
    ELSE [exc |-> "none", match |-> None]

\* _find_skill_match once the direct loop has given d
FindFrom(required_skill, resume_skills, resume, emb, d) ==
    IF d # 0
    THEN MatchWithYears(resume_skills[d], "direct", 100, None,
                        _get_skill_years(resume_skills[d], resume))
    ELSE RelatedResult(required_skill, resume,
                       _find_related_skill(required_skill, resume_skills, emb))

\* _find_skill_match with the related lookup tried before the direct loop
_find_skill_match_RelatedFirst(required_skill, resume_skills, resume, emb) ==
    IF _find_related_skill(required_skill, resume_skills, emb) # None
    THEN RelatedResult(required_skill, resume,
                       _find_related_skill(required_skill, resume_skills, emb))
    ELSE FindFrom(required_skill, resume_skills, resume, emb,
                  DirectIndex(required_skill, resume_skills))

\* returns [exc, match]: match is None or Some(SkillMatch)
_find_skill_match(required_skill, resume_skills, resume, emb) ==
    FindFrom(required_skill, resume_skills, resume, emb,
             DirectIndex(required_skill, resume_skills))

-----------------------------------------------------------------------------
(* JDMatcher: scoring *)

\* a percentage as the exact fraction num / den (den > 0)
Pct(num, den) == [num |-> num, den |-> den]

\* match_percentage >= k
PctGE(p, k) == p.num >= k * p.den

\* round(match_percentage, 2), in hundredths of a percent
RoundPct(p) == RoundDiv(p.num * 100, p.den)

\* matched_weight / total_weight * 100; the division raises on a zero divisor
Divide(matched_weight, total_weight) ==
    IF total_weight = 0 THEN [exc |-> "ZeroDivisionError", pct |-> Pct(0, 1)]
    ELSE IF total_weight > 0
         THEN [exc |-> "none", pct |-> Pct(matched_weight * 100, total_weight)]
         ELSE [exc |-> "none", pct |-> Pct(0 - matched_weight * 100, 0 - total_weight)]

\* MatchPercentage with the guard written total_weight >= 0
MatchPercentage_GuardGE(matched_weight, total_weight) ==
    IF total_weight >= 0 THEN Divide(matched_weight, total_weight)
    ELSE [exc |-> "none", pct |-> Pct(0, 1)]

\* (matched_weight / total_weight * 100) if total_weight > 0 else 0
MatchPercentage(matched_weight, total_weight) ==
    IF total_weight > 0 THEN Divide(matched_weight, total_weight)
    ELSE [exc |-> "none", pct |-> Pct(0, 1)]

\* a variant that records no unmatched skill at all
Accumulate_DropMissing(acc, req_skill, record_missing, m) ==
    IF m.exc # "none"
    THEN [acc EXCEPT !.exc = m.exc, !.total_weight = @ + req_skill.weight * 100]
    ELSE IF m.match # None
    THEN [acc EXCEPT
             !.total_weight = @ + req_skill.weight * 100,
             !.skill_matches = Append(@, m.match[1]),
             !.matched_weight =
                 IF m.match[1].match_type = "direct"
                 THEN @ + req_skill.weight * 100
                 ELSE @ + req_skill.weight * m.match[1].similarity_score]
    ELSE [acc EXCEPT !.total_weight = @ + req_skill.weight * 100]

\* a variant that records every unmatched skill as missing, preferred ones too
Accumulate_RecordAll(acc, req_skill, record_missing, m) ==
    IF m.exc # "none"
    THEN [acc EXCEPT !.exc = m.exc, !.total_weight = @ + req_skill.weight * 100]
    ELSE IF m.match # None
    THEN [acc EXCEPT
             !.total_weight = @ + req_skill.weight * 100,
             !.skill_matches = Append(@, m.match[1]),
             !.matched_weight =
                 IF m.match[1].match_type = "direct"
                 THEN @ + req_skill.weight * 100
                 ELSE @ + req_skill.weight * m.match[1].similarity_score]
    ELSE [acc EXCEPT
             !.total_weight = @ + req_skill.weight * 100,
             !.missing_skills = Append(@, req_skill)]

\* The body of the two loops of match_resume for one skill, m being what
\* _find_skill_match returned.  acc carries total_weight and matched_weight
\* (thousandths), skill_matches and missing_skills; an unmatched skill is
\* recorded as missing only in the loop over the required list.
Accumulate(acc, req_skill, record_missing, m) ==
    IF m.exc # "none"
    THEN [acc EXCEPT !.exc = m.exc, !.total_weight = @ + req_skill.weight * 100]
    ELSE IF m.match # None
    THEN [acc EXCEPT
             !.total_weight = @ + req_skill.weight * 100,
             !.skill_matches = Append(@, m.match[1]),
             !.matched_weight =
                 IF m.match[1].match_type = "direct"
                 THEN @ + req_skill.weight * 100
                 ELSE @ + req_skill.weight * m.match[1].similarity_score]
    ELSE [acc EXCEPT
             !.total_weight = @ + req_skill.weight * 100,
             !.missing_skills = IF record_missing THEN Append(@, req_skill) ELSE @]

\* for req_skill in jd_skills: ... (lines 37-48 with record_missing, 51-60 without)
RECURSIVE ProcessSkills(_, _, _, _, _, _, _)
ProcessSkills(jd_skills, i, record_missing, resume_skills, resume, emb, acc) ==
    IF i > Len(jd_skills) \/ acc.exc # "none" THEN acc
    ELSE ProcessSkills(jd_skills, i + 1, record_missing, resume_skills, resume, emb,
             Accumulate(acc, jd_skills[i], record_missing,
                        _find_skill_match(jd_skills[i].name, resume_skills, resume, emb)))

RECURSIVE TotalExperience(_, _, _, _)

\* the generator of line 216 after skill i has given y
TotalExperienceFrom(resume_skills, resume, i, total, y) ==
    IF y.exc # "none" THEN [exc |-> y.exc, total |-> total]
    ELSE TotalExperience(resume_skills, resume, i + 1,
                         total + (IF y.years = None THEN 0 ELSE y.years[1]))

\* sum(self._get_skill_years(skill["name"], resume_data) or 0 for skill in skills)
TotalExperience(resume_skills, resume, i, total) ==
    IF i > Len(resume_skills) THEN [exc |-> "none", total |-> total]
    ELSE TotalExperienceFrom(resume_skills, resume, i, total,
                             _get_skill_years(resume_skills[i], resume))

\* len([m for m in skill_matches if m.match_type == match_type])
CountType(skill_matches, match_type) ==
    Cardinality({i \in DOMAIN skill_matches : skill_matches[i].match_type = match_type})

Sentence(text, n) == [text |-> text, n |-> n]

\* a sentence appended under a condition
SentenceIf(cond, text, n) == IF cond THEN <<Sentence(text, n)>> ELSE <<>>

\* a variant whose thresholds are exclusive
Recommendation_Exclusive(match_percentage) ==
    IF ~PctGE(Pct(85 * match_percentage.den, 1), match_percentage.num) THEN "Strong Match"
    ELSE IF ~PctGE(Pct(70 * match_percentage.den, 1), match_percentage.num) THEN "Good Match"
    ELSE IF ~PctGE(Pct(50 * match_percentage.den, 1), match_percentage.num) THEN "Consider"
    ELSE "Not Recommended"

Recommendation(match_percentage) ==
    IF PctGE(match_percentage, 85) THEN "Strong Match"
    ELSE IF PctGE(match_percentage, 70) THEN "Good Match"
    ELSE IF PctGE(match_percentage, 50) THEN "Consider"
    ELSE "Not Recommended"

TierSentence(match_percentage) ==
    IF PctGE(match_percentage, 85) THEN "Strong overall match"
    ELSE IF PctGE(match_percentage, 70) THEN "Good match"
    ELSE IF PctGE(match_percentage, 50) THEN "Moderate match"
    ELSE "Low match"

\* a variant whose last factor asks for a direct match
ConfidenceFactors_DirectOnly(resume, skill_matches) ==
      (IF resume.contact_info # None THEN 1 ELSE 0)
    + (IF resume.skills # <<>> THEN 1 ELSE 0)
    + (IF resume.education # <<>> THEN 1 ELSE 0)
    + (IF resume.experience # <<>> THEN 1 ELSE 0)
    + (IF CountType(skill_matches, "direct") > 0 THEN 1 ELSE 0)

\* number of true confidence_factors
ConfidenceFactors(resume, skill_matches) ==
      (IF resume.contact_info # None THEN 1 ELSE 0)
    + (IF resume.skills # <<>> THEN 1 ELSE 0)
    + (IF resume.education # <<>> THEN 1 ELSE 0)
    + (IF resume.experience # <<>> THEN 1 ELSE 0)
    + (IF Len(skill_matches) > 0 THEN 1 ELSE 0)

\* any(edu.degree and level.lower() in edu.degree.lower() for edu in education)
HasDegree(education, level) ==
    \E i \in DOMAIN education :
        /\ education[i].degree # None
        /\ education[i].degree[1] # <<>>
        /\ IsSubstring(Lower(level), Lower(education[i].degree[1]))

\* if job_description.min_experience:
WantsExperience(jd) == jd.min_experience # None /\ jd.min_experience[1] # 0

\* if job_description.education_level and not any(...)
LacksEducation(jd, resume) ==
    /\ jd.education_level # None
    /\ jd.education_level[1] # <<>>
    /\ ~HasDegree(resume.education, jd.education_level[1])

\* [s.name for s in missing_skills if s.importance == "required"], counted
CriticalMissing(missing_skills) ==
    Cardinality({i \in DOMAIN missing_skills : missing_skills[i].importance = "required"})

\* _generate_recommendation once the experience sum (total_exp) is known
RecommendationFrom(match_percentage, skill_matches, missing_skills, jd, resume, total_exp) ==
    [exc |-> total_exp.exc,
     recommendation |-> Recommendation(match_percentage),
     confidence_score |-> RoundDiv(ConfidenceFactors(resume, skill_matches) * 100, 5),
     explanation |->
        <<Sentence(TierSentence(match_percentage), 0)>>
        \o SentenceIf(CountType(skill_matches, "direct") > 0,
                      "Directly matches", CountType(skill_matches, "direct"))
        \o SentenceIf(CountType(skill_matches, "related") > 0,
                      "Has related", CountType(skill_matches, "related"))
        \o SentenceIf(CriticalMissing(missing_skills) > 0,
                      "Missing critical", CriticalMissing(missing_skills)),
     suggestions |->
        SentenceIf(CriticalMissing(missing_skills) > 0,
                   "Focus on acquiring", CriticalMissing(missing_skills))
        \o SentenceIf(WantsExperience(jd) /\ total_exp.exc = "none"
                          /\ total_exp.total < jd.min_experience[1],
                      "Gain more experience", 0)
        \o SentenceIf(LacksEducation(jd, resume), "Consider pursuing", 0)]

\* returns [exc, recommendation, confidence_score (hundredths), explanation,
\* suggestions]
_generate_recommendation(match_percentage, skill_matches, missing_skills, jd, resume) ==
    RecommendationFrom(match_percentage, skill_matches, missing_skills, jd, resume,
        IF WantsExperience(jd) THEN TotalExperience(resume.skills, resume, 1, 0)
        ELSE [exc |-> "none", total |-> 0])

\* The value of a match_resume call: a ResumeMatch, or the exception raised
MatchOutcome(status, exc, acc, pct, rec) ==
    [status |-> status, exc |-> exc,
     total_weight |-> acc.total_weight, matched_weight |-> acc.matched_weight,
     match_percentage |-> IF status = "returned" THEN RoundPct(pct) ELSE 0,
     skill_matches |-> acc.skill_matches, missing_skills |-> acc.missing_skills,
     recommendation |-> IF status = "returned" THEN rec.recommendation ELSE "",
     confidence_score |-> IF status = "returned" THEN rec.confidence_score ELSE 0,
     explanation |-> IF status = "returned" THEN rec.explanation ELSE <<>>,
     improvement_suggestions |-> IF status = "returned" THEN rec.suggestions ELSE <<>>]

EmptyAcc ==
    [exc |-> "none", total_weight |-> 0, matched_weight |-> 0,
     skill_matches |-> <<>>, missing_skills |-> <<>>]

NoRec ==
    [exc |-> "none", recommendation |-> "", confidence_score |-> 0,
     explanation |-> <<>>, suggestions |-> <<>>]

\* skill["name"] needs a subscriptable skill: the elements of ResumeData.skills
\* (pydantic Skill) and of the ORM Resume.skills are objects without
\* __getitem__, so the comprehension raises TypeError on its first element.
SkillsSubscriptable(resume) == resume.kind = "Mapping"

\* resume_data.id: ResumeData declares no id field
HasId(resume) == resume.kind # "ResumeData"

\* lines 74-83: the ResumeMatch, built after _generate_recommendation gave rec
BuildReport(acc, pct, rec, resume) ==
    IF rec.exc # "none" THEN MatchOutcome("raised", rec.exc, acc, pct, NoRec)
    ELSE IF ~HasId(resume) THEN MatchOutcome("raised", "AttributeError", acc, pct, NoRec)
    ELSE MatchOutcome("returned", "none", acc, pct, rec)

\* lines 65-83, mp being the percentage of line 63
Recommend(acc, mp, jd, resume) ==
    IF mp.exc # "none" THEN MatchOutcome("raised", mp.exc, acc, Pct(0, 1), NoRec)
    ELSE BuildReport(acc, mp.pct,
             _generate_recommendation(mp.pct, acc.skill_matches, acc.missing_skills,
                                      jd, resume),
             resume)

\* lines 62-83, acc being the state after the two loops
Score(acc, jd, resume) ==
    IF acc.exc # "none" THEN MatchOutcome("raised", acc.exc, acc, Pct(0, 1), NoRec)
    ELSE Recommend(acc, MatchPercentage(acc.matched_weight, acc.total_weight), jd, resume)

match_resume(resume, jd, emb) ==
    IF resume.skills # <<>> /\ ~SkillsSubscriptable(resume)
    THEN MatchOutcome("raised", "TypeError", EmptyAcc, Pct(0, 1), NoRec)
    ELSE Score(ProcessSkills(jd.preferred_skills, 1, FALSE, resume.skills, resume, emb,
                   ProcessSkills(jd.required_skills, 1, TRUE, resume.skills, resume, emb,
                                 EmptyAcc)),
               jd, resume)

-----------------------------------------------------------------------------
(* Matcher inputs *)

MaxSkills == 2

MaxRequired == 2

MaxPreferred == 1

MaxExperience == 1

Str_python == <<"p", "y", "t", "h", "o", "n">>

Str_kubernetes == <<"k", "u", "b", "e", "r", "n", "e", "t", "e", "s">>

Str_rust == <<"r", "u", "s", "t">>

Str_Python == <<"P", "y", "t", "h", "o", "n">>

Str_docker == <<"d", "o", "c", "k", "e", "r">>

\* names a job description asks for
JDNames == {Str_python, Str_kubernetes}

\* names a resume lists
ResumeNames == {Str_Python, Str_docker}

\* RequiredSkill.weight is any float: negative and positive values (tenths)
RequiredWeights == {0 - 5, 10}

PreferredWeights == {5}

RequiredSkill(name, years, importance, weight) ==
    [name |-> name, years |-> years, importance |-> importance, weight |-> weight]

RequiredPool ==
    {RequiredSkill(n, None, "required", w) : n \in JDNames, w \in RequiredWeights}

PreferredPool ==
    {RequiredSkill(n, None, "preferred", w) : n \in JDNames, w \in PreferredWeights}

JobDescriptions ==
    [required_skills : SeqsUpTo(RequiredPool, MaxRequired),
     preferred_skills : SeqsUpTo(PreferredPool, MaxPreferred),
     min_experience : {None},
     education_level : {None}]

Numeral(v) == [isNum |-> TRUE, val |-> v]

DateStr(tokens) == [truthy |-> TRUE, tokens |-> tokens]

\* Experience entries: one without a description, one that names both resume
\* skills and carries two year tokens
ExperiencePool ==
    {[description |-> None,
      start_date |-> Some(DateStr(<<Numeral(2018)>>)),
      end_date |-> Some(DateStr(<<Numeral(2020)>>))],
     [description |-> Some(Str_python \o <<" ">> \o Str_docker),
      start_date |-> Some(DateStr(<<Numeral(2018)>>)),
      end_date |-> Some(DateStr(<<Numeral(2021)>>))]}

\* The resume records match_resume is handed: a ResumeData (the declared
\* parameter type), an ORM Resume row (what the /jd/analyze route passes) or a
\* record whose skills are plain mappings (what skill["name"] expects).
Kinds == {"ResumeData", "DBResume", "Mapping"}

\* a contact record none of whose fields was found, and one with a name
BlankContact == [name |-> <<>>, email |-> <<>>]

NamedContact == [name |-> <<"J", "D">>, email |-> <<>>]

\* an education entry
Degree == [degree |-> Some(<<"B", "S">>)]

\* contact_info is a required field of ResumeData and an optional relationship
\* of the ORM row.
Resumes ==
    {r \in [kind : Kinds,
            skills : SeqsUpTo(ResumeNames, MaxSkills),
            experience : SeqsUpTo(ExperiencePool, MaxExperience),
            education : {<<>>, <<Degree>>},
            contact_info : {None, Some(BlankContact), Some(NamedContact)}] :
        r.kind = "ResumeData" => r.contact_info # None}

\* cosine similarities (hundredths) the embedder may give a resume skill
SimLevels == {70, 90}

Embedders ==
    {[p \in JDNames \X ResumeNames |-> f[p[2]]] : f \in [ResumeNames -> SimLevels]}

Pending == MatchOutcome("pending", "none", EmptyAcc, Pct(0, 1), NoRec)

-----------------------------------------------------------------------------
(* The matcher as a state machine: one match request *)

NoCall == [status |-> "idle", exc |-> "none", match |-> None]

InitMatch ==
    /\ resume_data \in Resumes
    /\ job_description \in JobDescriptions
    /\ model \in Embedders
    /\ match_result = Pending
    /\ lookup_skill = <<>>
    /\ skill_match = NoCall
    /\ jd_text = <<>>
    /\ parsed_jd = [status |-> "idle"]
    /\ request = [entry |-> "none"]
    /\ files = {}
    /\ acquired = [status |-> "idle"]
    /\ resume_text = <<>>
    /\ extracted = [status |-> "idle"]
    /\ raw_skill = <<>>
    /\ normalized = [status |-> "idle"]
    /\ clock = 0
    /\ upload_dir = <<>>
    /\ calls = <<>>
    /\ years_skill = <<>>
    /\ years_resume = <<>>
    /\ skill_years = [status |-> "idle"]
    /\ resumes_collection = <<>>
    /\ tag_collection = <<>>
    /\ tag_call = [op |-> "idle"]

MatchResume ==
    /\ match_result.status = "pending"
    /\ match_result' = match_resume(resume_data, job_description, model)
    /\ UNCHANGED <<resume_data, job_description, model, findVars, parserVars, uploadVars, extractVars, normalizeVars, concurrentVars, yearsVars, tagVars>>

NextMatch == MatchResume

SpecMatch == InitMatch /\ [][NextMatch]_vars

-----------------------------------------------------------------------------
(* _find_skill_match on its own: one lookup of a required skill *)

MaxCandidates == 3

Str_Kubernetes == <<"K", "u", "b", "e", "r", "n", "e", "t", "e", "s">>

Str_aws == <<"a", "w", "s">>

Str_go == <<"g", "o">>

Str_junit == <<"j", "u", "n", "i", "t">>

Str_pytest == <<"p", "y", "t", "e", "s", "t">>

Str_spring == <<"s", "p", "r", "i", "n", "g">>

Str_golang == <<"g", "o", "l", "a", "n", "g">>

\* kubernetes is in one related list, junit in two, rust and golang in none;
\* the candidate go is a substring of golang
FindRequired == {Str_kubernetes, Str_rust, Str_junit, Str_golang}

FindCandidates == {Str_Kubernetes, Str_docker, Str_aws, Str_go, Str_pytest, Str_spring}

FindEmbedders ==
    {[p \in FindRequired \X FindCandidates |-> f[p[2]]] :
        f \in [FindCandidates -> SimLevels]}

\* the embedder when the sentence-transformer model cannot be loaded
NoEmbedder == <<>>

\* JDMatcher(): the constructor loads the model and raises when it cannot
JDMatcherInit(emb) == IF emb = NoEmbedder THEN "OSError" ELSE "none"

CandidateResume(resume_skills) ==
    [kind |-> "Mapping", skills |-> resume_skills, experience |-> <<>>,
     education |-> <<>>, contact_info |-> Some(BlankContact)]

EmptyJD ==
    [required_skills |-> <<>>, preferred_skills |-> <<>>,
     min_experience |-> None, education_level |-> None]

InitFind ==
    /\ lookup_skill \in FindRequired
    /\ resume_data \in {CandidateResume(c) : c \in SeqsUpTo(FindCandidates, MaxCandidates)}
    /\ model \in FindEmbedders \cup {NoEmbedder}
    /\ skill_match = [status |-> "pending", exc |-> "none", match |-> None]
    /\ job_description = EmptyJD
    /\ match_result = Pending
    /\ jd_text = <<>>
    /\ parsed_jd = [status |-> "idle"]
    /\ request = [entry |-> "none"]
    /\ files = {}
    /\ acquired = [status |-> "idle"]
    /\ resume_text = <<>>
    /\ extracted = [status |-> "idle"]
    /\ raw_skill = <<>>
    /\ normalized = [status |-> "idle"]
    /\ clock = 0
    /\ upload_dir = <<>>
    /\ calls = <<>>
    /\ years_skill = <<>>
    /\ years_resume = <<>>
    /\ skill_years = [status |-> "idle"]
    /\ resumes_collection = <<>>
    /\ tag_collection = <<>>
    /\ tag_call = [op |-> "idle"]

\* the matcher is built, then asked for one skill; without a matcher there is
\* no call
FindSkillMatch ==
    /\ skill_match.status = "pending"
    /\ skill_match' =
          IF JDMatcherInit(model) # "none"
          THEN [status |-> "failed", exc |-> JDMatcherInit(model), match |-> None]
          ELSE LET m == _find_skill_match(lookup_skill, resume_data.skills,
                                         resume_data, model)
               IN  [status |-> "done", exc |-> m.exc, match |-> m.match]
    /\ UNCHANGED <<matcherVars, lookup_skill, parserVars, uploadVars, extractVars, normalizeVars, concurrentVars, yearsVars, tagVars>>

NextFind == FindSkillMatch

SpecFind == InitFind /\ [][NextFind]_vars

-----------------------------------------------------------------------------
(* JDParser (app/services/jd_parser.py) *)

\* A job-description text is its words, separated by single blanks.  The
\* regular expressions of the parser are read over words: a pattern matches
\* at a word when its characters match there.

\* the entries of tech_skills that a text below can name, in list order
tech_skills == <<"Python", "Docker">>

\* the entries of education_levels that a text below can name, in list order
education_levels == <<"Bachelor">>

\* words the first title pattern matches: (Engineer|Developer|Architect)
TitleWords == {"Engineer", "Developer", "Architect"}

\* (required|must have|key|essential)(?:\s+skills|\s+qualifications)?:
RequiredHeaders == {"Required:", "Essential:", "Key:"}

\* (preferred|nice to have|plus|desired)(?:\s+skills|\s+qualifications)?:
PreferredHeaders == {"Preferred:", "Desired:", "Plus:"}

\* the characters of the number words: a number, a number with '+', a range
NumberChars(word) ==
    IF word = "3" THEN <<"3">>
    ELSE IF word = "5+" THEN <<"5", "+">>
    ELSE IF word = "3-5" THEN <<"3", "-", "5">>
    ELSE <<>>

\* \d+(?:\.\d+)?(?:\+|\s*-\s*\d+(?:\.\d+)?)? matches the whole word
IsNumber(word) == NumberChars(word) # <<>>

Digits == <<"0", "1", "2", "3", "4", "5", "6", "7", "8", "9">>

IsDigit(c) == \E i \in DOMAIN Digits : Digits[i] = c

DigitValue(c) == (CHOOSE i \in DOMAIN Digits : Digits[i] = c) - 1

RECURSIVE Decimal(_, _, _)
Decimal(s, i, value) ==
    IF i > Len(s) THEN value ELSE Decimal(s, i + 1, value * 10 + DigitValue(s[i]))

\* float(s) for a string without sign, point or exponent: its value when every
\* character is a digit, ValueError otherwise
Float(s) ==
    IF s # <<>> /\ \A i \in DOMAIN s : IsDigit(s[i])
    THEN [exc |-> "none", val |-> Decimal(s, 1, 0)]
    ELSE [exc |-> "ValueError", val |-> 0]

\* the longest run of digits that ends s
TrailingDigits(s) ==
    SubSeq(s, FirstIndex({k \in 1..(Len(s) + 1) : \A i \in k..Len(s) : IsDigit(s[i])}),
           Len(s))

\* doc.sents: a full stop ends a sentence; a text without words has none
RECURSIVE Sentences(_, _, _)
Sentences(words, i, sent) ==
    IF i > Len(words) THEN (IF sent = <<>> THEN <<>> ELSE <<sent>>)
    ELSE IF words[i] = "." THEN <<Append(sent, ".")>> \o Sentences(words, i + 1, <<>>)
    ELSE Sentences(words, i + 1, Append(sent, words[i]))

\* the first word of a set in a list of words (0 when there is none)
FirstWord(words, set) == FirstIndex({i \in DOMAIN words : words[i] \in set})

\* bool(doc.sents): a generator object is true whatever it yields
GeneratorTruthy == TRUE

DefaultTitle == <<"Software", "Engineer">>

\* the loop of _extract_title: the first sentence a title pattern matches in
TitleSentence(sents) ==
    FirstIndex({k \in DOMAIN sents : FirstWord(sents[k], TitleWords) # 0})

\* _extract_title once the loop has stopped at sentence k (0: no match).  The
\* last line tests doc.sents, a generator and therefore true, and takes
\* next(doc.sents): StopIteration when the document has no sentence.
TitleFrom(sents, k) ==
    IF k # 0
    THEN [exc |-> "none", title |-> <<sents[k][FirstWord(sents[k], TitleWords)]>>]
    ELSE IF ~GeneratorTruthy THEN [exc |-> "none", title |-> DefaultTitle]
    ELSE IF sents = <<>> THEN [exc |-> "StopIteration", title |-> <<>>]
    ELSE [exc |-> "none", title |-> sents[1]]

_extract_title(words) ==
    TitleFrom(Sentences(words, 1, <<>>), TitleSentence(Sentences(words, 1, <<>>)))

\* group(2) of a header pattern whose header is word h: (.*?)(?=\n\n|\Z) on a
\* text whose newlines parse has replaced runs to the end of the text
SectionFrom(words, h) ==
    IF h = 0 THEN <<>> ELSE SubSeq(words, h + 1, Len(words))

\* lines 98-100: with both sections empty the whole text is the required one
RequiredSection(words) ==
    IF SectionFrom(words, FirstWord(words, RequiredHeaders)) = <<>>
       /\ SectionFrom(words, FirstWord(words, PreferredHeaders)) = <<>>
    THEN words
    ELSE SectionFrom(words, FirstWord(words, RequiredHeaders))

PreferredSection(words) == SectionFrom(words, FirstWord(words, PreferredHeaders))

\* re.search(fr"\b{skill}\b", section, re.IGNORECASE)
HasWord(section, skill) == \E i \in DOMAIN section : section[i] = skill

\* re.search(pattern, section): the first place where the skill is followed
\* by a number word (0: no match)
YearsMatch(section, skill) ==
    FirstIndex({i \in 1..(Len(section) - 1) :
                   section[i] = skill /\ IsNumber(section[i + 1])})

\* float(years_match.group(1).replace("+", "")) if years_match else None
YearsFrom(section, i) ==
    IF i = 0 THEN [exc |-> "none", val |-> None]
    ELSE [exc |-> Float(RemoveChar(NumberChars(section[i + 1]), "+")).exc,
          val |-> Some(Float(RemoveChar(NumberChars(section[i + 1]), "+")).val)]

\* a variant that puts the new entry at the head of its list
AppendSkill_Prepend(lists, skill, importance, weight, years) ==
    IF years.exc # "none" THEN [lists EXCEPT !.exc = years.exc]
    ELSE IF importance = "required"
    THEN [lists EXCEPT !.required_skills =
                          <<RequiredSkill(skill, years.val, importance, weight)>> \o @]
    ELSE [lists EXCEPT !.preferred_skills =
                          <<RequiredSkill(skill, years.val, importance, weight)>> \o @]

\* one append of the loop, years being the value of lines 110 / 121
AppendSkill(lists, skill, importance, weight, years) ==
    IF years.exc # "none" THEN [lists EXCEPT !.exc = years.exc]
    ELSE IF importance = "required"
    THEN [lists EXCEPT !.required_skills =
                          Append(@, RequiredSkill(skill, years.val, importance, weight))]
    ELSE [lists EXCEPT !.preferred_skills =
                          Append(@, RequiredSkill(skill, years.val, importance, weight))]

\* for skill in self.tech_skills: required section first, else preferred
RECURSIVE SkillLoop(_, _, _, _)
SkillLoop(required, preferred, k, lists) ==
    IF k > Len(tech_skills) \/ lists.exc # "none" THEN lists
    ELSE IF HasWord(required, tech_skills[k])
    THEN SkillLoop(required, preferred, k + 1,
             AppendSkill(lists, tech_skills[k], "required", 10,
                         YearsFrom(required, YearsMatch(required, tech_skills[k]))))
    ELSE IF HasWord(preferred, tech_skills[k])
    THEN SkillLoop(required, preferred, k + 1,
             AppendSkill(lists, tech_skills[k], "preferred", 5,
                         YearsFrom(preferred, YearsMatch(preferred, tech_skills[k]))))
    ELSE SkillLoop(required, preferred, k + 1, lists)

\* returns [exc, required_skills, preferred_skills]
_extract_skills(words) ==
    SkillLoop(RequiredSection(words), PreferredSection(words), 1,
              [exc |-> "none", required_skills |-> <<>>, preferred_skills |-> <<>>])

\* (\d+(?:\.\d+)?)\+?\s*(?:years?|yrs?)(?:\s+of)?\s+experience
ExperiencePattern(words) ==
    FirstIndex({i \in 1..(Len(words) - 2) :
                   /\ IsNumber(words[i])
                   /\ words[i + 1] = "years"
                   /\ words[i + 2] = "experience"})

\* (?:minimum|min\.?|at\s+least)\s+(\d+(?:\.\d+)?)\s*(?:years?|yrs?)
MinimumPattern(words) ==
    FirstIndex({i \in 1..(Len(words) - 2) :
                   /\ words[i] = "minimum"
                   /\ IsNumber(words[i + 1])
                   /\ Float(NumberChars(words[i + 1])).exc = "none"
                   /\ words[i + 2] = "years"})

\* The patterns in order.  The first one captures the digits that end the
\* number (before a '+'); the third one matches only where the first does.
MinExperienceFrom(words, first, second) ==
    IF first # 0
    THEN Some(Float(TrailingDigits(RemoveChar(NumberChars(words[first]), "+"))).val)
    ELSE IF second # 0 THEN Some(Float(NumberChars(words[second + 1])).val)
    ELSE None

_extract_min_experience(words) ==
    MinExperienceFrom(words, ExperiencePattern(words), MinimumPattern(words))

\* the first level of the list that occurs in the text as a word
LevelFrom(k) == IF k = 0 THEN None ELSE Some(education_levels[k])

_extract_education_level(words) ==
    LevelFrom(FirstIndex({k \in DOMAIN education_levels : HasWord(words, education_levels[k])}))

\* The value of a parse call: a JobDescription, or the exception raised
ParseOutcome(status, exc, title, words, skills, min_experience, education_level) ==
    [status |-> status, exc |-> exc, title |-> title, description |-> words,
     required_skills |-> skills.required_skills,
     preferred_skills |-> skills.preferred_skills,
     min_experience |-> min_experience, education_level |-> education_level]

NoSkills == [exc |-> "none", required_skills |-> <<>>, preferred_skills |-> <<>>]

\* lines 39-55, title being the value of line 37 and skills that of line 40
ParseFrom(words, title, skills) ==
    IF title.exc # "none"
    THEN ParseOutcome("raised", title.exc, <<>>, words, NoSkills, None, None)
    ELSE IF skills.exc # "none"
    THEN ParseOutcome("raised", skills.exc, <<>>, words, NoSkills, None, None)
    ELSE ParseOutcome("returned", "none", title.title, words, skills,
                      _extract_min_experience(words), _extract_education_level(words))

parse(words) == ParseFrom(words, _extract_title(words), _extract_skills(words))

MaxWords == 4

\* the words a job-description text is made of
Words ==
    {"Python", "Docker", "3", "5+", "3-5", "years", "experience", "minimum",
     "Required:", "Preferred:", "Engineer", "Bachelor", "team", "."}

NotParsed == ParseOutcome("pending", "none", <<>>, <<>>, NoSkills, None, None)

InitParse ==
    /\ jd_text \in SeqsUpTo(Words, MaxWords)
    /\ parsed_jd = NotParsed
    /\ resume_data = CandidateResume(<<>>)
    /\ job_description = EmptyJD
    /\ model = <<>>
    /\ match_result = Pending
    /\ lookup_skill = <<>>
    /\ skill_match = NoCall
    /\ request = [entry |-> "none"]
    /\ files = {}
    /\ acquired = [status |-> "idle"]
    /\ resume_text = <<>>
    /\ extracted = [status |-> "idle"]
    /\ raw_skill = <<>>
    /\ normalized = [status |-> "idle"]
    /\ clock = 0
    /\ upload_dir = <<>>
    /\ calls = <<>>
    /\ years_skill = <<>>
    /\ years_resume = <<>>
    /\ skill_years = [status |-> "idle"]
    /\ resumes_collection = <<>>
    /\ tag_collection = <<>>
    /\ tag_call = [op |-> "idle"]

Parse ==
    /\ parsed_jd.status = "pending"
    /\ parsed_jd' = parse(jd_text)
    /\ UNCHANGED <<jd_text, matcherVars, findVars, uploadVars, extractVars, normalizeVars, concurrentVars, yearsVars, tagVars>>

NextParse == Parse

SpecParse == InitParse /\ [][NextParse]_vars

-----------------------------------------------------------------------------
(* Text acquisition: app/services/resume_parser.py, app/routers/resume.py    *)
(* and ResumeExtractor._extract_text                                         *)

Ext_pdf == <<"p", "d", "f">>

Ext_PDF == <<"P", "D", "F">>

Ext_doc == <<"d", "o", "c">>

Ext_docx == <<"d", "o", "c", "x">>

Ext_txt == <<"t", "x", "t">>

Ext_exe == <<"e", "x", "e">>

\* resume_parser.py: if file_extension not in ['pdf', 'doc', 'docx', 'txt']
SupportedExtensions == {Ext_pdf, Ext_doc, Ext_docx, Ext_txt}

\* routers/resume.py
ALLOWED_EXTENSIONS == {Ext_pdf, Ext_doc, Ext_docx}

\* A file name is a stem and, after its last dot, an extension (None: no dot).
Filename(stem, ext) == [stem |-> stem, ext |-> ext]

\* Path(file.filename).suffix.lower().lstrip('.')
Suffix(filename) == IF filename.ext = None THEN <<>> ELSE Lower(filename.ext[1])

\* allowed_file without the membership test
allowed_file_AnyExtension(filename) == filename.ext # None

\* "." in filename and filename.rsplit(".", 1)[1].lower() in ALLOWED_EXTENSIONS
allowed_file(filename) ==
    filename.ext # None /\ Lower(filename.ext[1]) \in ALLOWED_EXTENSIONS

\* A text is known by its length and by the length of text.strip().
Chars(n) == [length |-> n, stripped |-> n]

\* text + "\n"
WithNewline(text) == [length |-> text.length + 1, stripped |-> text.stripped]

FallbackLength == 100

\* ResumeExtractor._extract_text, lines 38-42, text being what PyPDF2 gave:
\* a second pass with pdfplumber when fewer than 100 characters came out
SecondPass(doc, text) ==
    IF text.stripped < FallbackLength
    THEN [text |-> WithNewline(Chars(doc.plumber)), ran |-> <<"PyPDF2", "pdfplumber">>]
    ELSE [text |-> text, ran |-> <<"PyPDF2">>]

\* ResumeExtractor._extract_text on a one-page document.  PdfReader raises on
\* bytes that are no PDF; the except clause prints and the method returns "".
_extract_text(doc) ==
    IF doc.format # "pdf" THEN [text |-> Chars(0), ran |-> <<"PyPDF2">>]
    ELSE SecondPass(doc, WithNewline(Chars(doc.pypdf)))

\* The value of a text-acquisition call: the text returned, the record built
\* from it, the strategies run and the paths created, or the error raised
Acquired(status, exc, detail, text, record, ran, created) ==
    [status |-> status, exc |-> exc, detail |-> detail, text |-> text,
     record |-> record, ran |-> ran, created |-> created]

\* extract_text_from_file: PyPDF2 for 'pdf', docx2txt for 'doc' and 'docx',
\* a plain read for every other file_type; any exception becomes ValueError
extract_text_from_file(doc, file_type) ==
    IF file_type = Ext_pdf
    THEN IF doc.format = "pdf"
         THEN Acquired("returned", "none", "", Some(Chars(doc.pypdf)), None, <<"PyPDF2">>, {})
         ELSE Acquired("raised", "ValueError", "Error extracting text", None, None,
                       <<"PyPDF2">>, {})
    ELSE IF file_type \in {Ext_doc, Ext_docx}
    THEN IF doc.format = "docx"
         THEN Acquired("returned", "none", "", Some(Chars(doc.body)), None, <<"docx2txt">>, {})
         ELSE Acquired("raised", "ValueError", "Error extracting text", None, None,
                       <<"docx2txt">>, {})
    ELSE Acquired("returned", "none", "", Some(Chars(doc.raw)), None, <<"plain">>, {})

\* the ResumeData built from a text (pydantic validation of the extracted
\* fields is not modelled)
ResumeRecord(text) == [built_from |-> text]

\* parse_resume, got being what extract_text_from_file gave
ParseResumeFrom(got) ==
    IF got.status = "raised" THEN got
    ELSE [got EXCEPT !.record = Some(ResumeRecord(got.text[1]))]

parse_resume(doc, file_type) == ParseResumeFrom(extract_text_from_file(doc, file_type))

\* parse_uploaded_resume, lines 100-111: parse_resume inside try, any exception
\* re-raised as ValueError, the temporary file unlinked in finally
ParseAndUnlink(parsed, path, fs) ==
    [files |-> fs \ {path},
     outcome |-> IF parsed.status = "raised"
                 THEN [parsed EXCEPT !.detail = "Error parsing resume", !.created = {path}]
                 ELSE [parsed EXCEPT !.created = {path}]]

\* parse_uploaded_resume: returns the file system and the outcome.  The
\* temporary file is made with delete=False; reading the upload and writing
\* the copy happen inside the with block, before the try statement.
parse_uploaded_resume(req, fs) ==
    IF Suffix(req.filename) \notin SupportedExtensions
    THEN [files |-> fs,
          outcome |-> Acquired("raised", "ValueError", "Unsupported file type", None, None,
                               <<>>, {})]
    ELSE IF req.fault \in {"read", "write"}
    THEN [files |-> fs \cup {"temp"},
          outcome |-> Acquired("raised", "OSError", "", None, None, <<>>, {"temp"})]
    ELSE ParseAndUnlink(parse_resume(req.document, Suffix(req.filename)), "temp",
                        fs \cup {"temp"})

\* upload_resume, lines 94-138: the extractor never raises, the record is built
\* from whatever text it returned
ExtractAndBuild(got, path) ==
    Acquired("returned", "none", "", Some(got.text), Some(ResumeRecord(got.text)),
             got.ran, {path})

\* upload_resume: returns the file system and the outcome.  The file is
\* opened inside the try statement whose finally clause removes it.
upload_resume(req, fs) ==
    IF req.filename.stem = "" /\ req.filename.ext = None
    THEN [files |-> fs,
          outcome |-> Acquired("raised", "HTTP 400", "No file provided", None, None, <<>>, {})]
    ELSE IF ~allowed_file(req.filename)
    THEN [files |-> fs,
          outcome |-> Acquired("raised", "HTTP 400", "Invalid file type", None, None, <<>>, {})]
    ELSE IF req.fault \in {"read", "write"}
    THEN [files |-> (fs \cup {"upload"}) \ {"upload"},
          outcome |-> Acquired("raised", "HTTP 500", "Error processing file upload", None,
                               None, <<>>, {"upload"})]
    ELSE [files |-> (fs \cup {"upload"}) \ {"upload"},
          outcome |-> ExtractAndBuild(_extract_text(req.document), "upload")]

\* one-page documents: a PDF by the text each PDF library gets out of it, a
\* DOCX by its body text, any other content by its characters
Documents ==
    {[format |-> "pdf", pypdf |-> a, plumber |-> b, body |-> 0, raw |-> 200] :
        a \in {0, 50, 150}, b \in {0, 150}}
    \cup {[format |-> "docx", pypdf |-> 0, plumber |-> 0, body |-> c, raw |-> 200] :
            c \in {0, 150}}
    \cup {[format |-> "other", pypdf |-> 0, plumber |-> 0, body |-> 0, raw |-> r] :
            r \in {0, 150}}

Extensions == {Ext_pdf, Ext_PDF, Ext_doc, Ext_docx, Ext_txt, Ext_exe}

Filenames ==
    {Filename("", None), Filename("resume", None)}
    \cup {Filename("resume", Some(e)) : e \in Extensions}

\* an upload whose content cannot be read, or whose copy cannot be written
Faults == {"none", "read", "write"}

Requests ==
    {[entry |-> e, filename |-> f, file_type |-> <<>>, document |-> d, fault |-> x] :
        e \in {"parse_uploaded_resume", "upload_resume"}, f \in Filenames,
        d \in Documents, x \in Faults}
    \cup {[entry |-> "extract_text_from_file", filename |-> Filename("resume", Some(t)),
           file_type |-> t, document |-> d, fault |-> "none"] :
            t \in Extensions, d \in Documents}

NotAcquired == Acquired("pending", "none", "", None, None, <<>>, {})

InitUpload ==
    /\ request \in Requests
    /\ files = IF request.entry = "extract_text_from_file" THEN {"given"} ELSE {}
    /\ acquired = NotAcquired
    /\ resume_data = CandidateResume(<<>>)
    /\ job_description = EmptyJD
    /\ model = <<>>
    /\ match_result = Pending
    /\ lookup_skill = <<>>
    /\ skill_match = NoCall
    /\ jd_text = <<>>
    /\ parsed_jd = [status |-> "idle"]
    /\ resume_text = <<>>
    /\ extracted = [status |-> "idle"]
    /\ raw_skill = <<>>
    /\ normalized = [status |-> "idle"]
    /\ clock = 0
    /\ upload_dir = <<>>
    /\ calls = <<>>
    /\ years_skill = <<>>
    /\ years_resume = <<>>
    /\ skill_years = [status |-> "idle"]
    /\ resumes_collection = <<>>
    /\ tag_collection = <<>>
    /\ tag_call = [op |-> "idle"]

ParseUploadedResume ==
    /\ request.entry = "parse_uploaded_resume"
    /\ acquired.status = "pending"
    /\ acquired' = parse_uploaded_resume(request, files).outcome
    /\ files' = parse_uploaded_resume(request, files).files
    /\ UNCHANGED <<request, matcherVars, findVars, parserVars, extractVars, normalizeVars, concurrentVars, yearsVars, tagVars>>

UploadResume ==
    /\ request.entry = "upload_resume"
    /\ acquired.status = "pending"
    /\ acquired' = upload_resume(request, files).outcome
    /\ files' = upload_resume(request, files).files
    /\ UNCHANGED <<request, matcherVars, findVars, parserVars, extractVars, normalizeVars, concurrentVars, yearsVars, tagVars>>

ExtractTextFromFile ==
    /\ request.entry = "extract_text_from_file"
    /\ acquired.status = "pending"
    /\ acquired' = extract_text_from_file(request.document, request.file_type)
    /\ UNCHANGED <<request, files, matcherVars, findVars, parserVars, extractVars, normalizeVars, concurrentVars, yearsVars, tagVars>>

NextUpload == ParseUploadedResume \/ UploadResume \/ ExtractTextFromFile

SpecUpload == InitUpload /\ [][NextUpload]_vars

-----------------------------------------------------------------------------
(* ResumeExtractor (app/services/resume_extractor.py): the segmenter and the *)
(* field extractors                                                          *)

\* A resume text is its lines and a line is its words; a colon, a comma and a
\* dash are words of their own, written onto the word before them or, for
\* the dash, between blanks.  A string result is the words it holds.

\* punctuation that str.split() leaves on the preceding word
Attached == {":", ","}

\* len(line.split())
WordCount(line) == Cardinality({i \in DOMAIN line : line[i] \notin Attached})

\* the header lines, each as its words
section_headers ==
    {<<"CONTACT">>, <<"PERSONAL", "INFO">>, <<"PROFILE">>, <<"SUMMARY">>, <<"OBJECTIVE">>,
     <<"EDUCATION">>, <<"ACADEMIC">>, <<"QUALIFICATION">>,
     <<"EXPERIENCE">>, <<"WORK", "EXPERIENCE">>, <<"EMPLOYMENT">>,
     <<"PROFESSIONAL", "EXPERIENCE">>,
     <<"SKILLS">>, <<"TECHNICAL", "SKILLS">>, <<"EXPERTISE">>, <<"COMPETENCIES">>,
     <<"PROJECTS">>, <<"PERSONAL", "PROJECTS">>, <<"ACADEMIC", "PROJECTS">>,
     <<"CERTIFICATIONS">>, <<"CERTIFICATES">>, <<"AWARDS">>, <<"ACHIEVEMENTS">>,
     <<"LANGUAGES">>, <<"INTERESTS">>, <<"HOBBIES">>, <<"ACTIVITIES">>,
     <<"PUBLICATIONS">>, <<"REFERENCES">>}

\* str.upper() of a word, for the words that are not upper case already
UpperWord(word) ==
    IF word = "Skills" THEN "SKILLS"
    ELSE IF word = "Education" THEN "EDUCATION"
    ELSE IF word = "Projects" THEN "PROJECTS"
    ELSE word

\* line.strip().upper()
UpperLine(line) == [i \in DOMAIN line |-> UpperWord(line[i])]

\* the line without the [:\s]* that may end a header
RECURSIVE DropColons(_)
DropColons(line) ==
    IF line # <<>> /\ line[Len(line)] = ":"
    THEN DropColons(SubSeq(line, 1, Len(line) - 1))
    ELSE line

\* re.match(pattern, line, re.IGNORECASE)
IsHeader(line) == UpperLine(DropColons(line)) \in section_headers

\* A dict is the sequence of its items in insertion order.
KeyIndex(sections, name) == FirstIndex({i \in DOMAIN sections : sections[i].name = name})

\* sections[name] = "": a new key goes last, a known key starts over
SetEmpty(sections, name) ==
    IF KeyIndex(sections, name) # 0
    THEN [sections EXCEPT ![KeyIndex(sections, name)].content = <<>>]
    ELSE Append(sections, [name |-> name, content |-> <<>>])

\* a variant that puts the newest line first
AddLine_Prepend(sections, name, line) ==
    [sections EXCEPT ![KeyIndex(sections, name)].content = <<line>> \o @]

\* sections[name] += line + "\n"
AddLine(sections, name, line) ==
    [sections EXCEPT ![KeyIndex(sections, name)].content = Append(@, line)]

\* the loop of _split_into_sections
RECURSIVE SplitLines(_, _, _, _)
SplitLines(lines, i, current_section, sections) ==
    IF i > Len(lines) THEN sections
    ELSE IF IsHeader(lines[i])
    THEN SplitLines(lines, i + 1, UpperLine(lines[i]),
                    SetEmpty(sections, UpperLine(lines[i])))
    ELSE IF lines[i] # <<>>
    THEN SplitLines(lines, i + 1, current_section,
                    AddLine(sections, current_section, lines[i]))
    ELSE SplitLines(lines, i + 1, current_section, sections)

HEADER == <<"HEADER">>

_split_into_sections(text) ==
    SplitLines(text, 1, HEADER, <<[name |-> HEADER, content |-> <<>>]>>)

\* the keywords of the extractors' tests that a word of a section name holds
KeywordsOf(word) ==
    IF word = "SKILLS" THEN {"SKILLS"}
    ELSE IF word = "EDUCATION" THEN {"EDUCATION"}
    ELSE IF word = "ACADEMIC" THEN {"ACADEMIC"}
    ELSE IF word = "QUALIFICATION" THEN {"QUALIFICATION"}
    ELSE IF word = "EXPERIENCE" THEN {"EXPERIENCE"}
    ELSE IF word = "EMPLOYMENT" THEN {"EMPLOYMENT"}
    ELSE IF word = "WORK" THEN {"WORK"}
    ELSE IF word = "PROJECTS" THEN {"PROJECT"}
    ELSE {}

\* keyword in section_name, for one of the keywords
NameHas(name, keywords) ==
    \E i \in DOMAIN name : KeywordsOf(name[i]) \cap keywords # {}

\* content of the section at index k (0: the loop found none, the text stays "")
ContentAt(sections, k) == IF k = 0 THEN <<>> ELSE sections[k].content

\* FirstSection falling back on the header text when no section name matches
FirstSection_OrHeader(sections, keywords) ==
    IF \E i \in DOMAIN sections : NameHas(sections[i].name, keywords)
    THEN ContentAt(sections,
                   FirstIndex({i \in DOMAIN sections : NameHas(sections[i].name, keywords)}))
    ELSE sections[1].content

\* for section_name, content in self.sections.items(): if ...: text = content; break
FirstSection(sections, keywords) ==
    ContentAt(sections,
              FirstIndex({i \in DOMAIN sections : NameHas(sections[i].name, keywords)}))

\* the words of a text in reading order
RECURSIVE Flatten(_, _)
Flatten(lines, i) ==
    IF i > Len(lines) THEN <<>> ELSE lines[i] \o Flatten(lines, i + 1)

EmailWords == {"jane@x.io"}

PhoneWords == {"555-010-0199"}

\* words spaCy tags GPE
PlaceWords == {"Berlin"}

LinkedinWords == {"linkedin.com/in/jane"}

GithubWords == {"github.com/jane"}

\* URLs the portfolio loop accepts (neither linkedin nor github in them)
UrlWords == {"https://jane.dev"}

\* matches[0] if matches, else the field stays ""
FirstMatch(words, set) ==
    IF FirstWord(words, set) = 0 THEN <<>> ELSE <<words[FirstWord(words, set)]>>

\* the name loop: the first line of the header text with more than one word
NameAt(lines, k) == IF k = 0 THEN <<>> ELSE lines[k]

\* self.sections.get("HEADER", "")
HeaderText(sections) == ContentAt(sections, KeyIndex(sections, HEADER))

extract_contact_info(text, sections) ==
    [name |-> NameAt(HeaderText(sections),
                     FirstIndex({k \in DOMAIN HeaderText(sections) :
                                    WordCount(HeaderText(sections)[k]) > 1})),
     email |-> FirstMatch(Flatten(text, 1), EmailWords),
     phone |-> FirstMatch(Flatten(text, 1), PhoneWords),
     location |-> FirstMatch(Flatten(text, 1), PlaceWords),  \* text[:1000]: all of it
     linkedin |-> FirstMatch(Flatten(text, 1), LinkedinWords),
     github |-> FirstMatch(Flatten(text, 1), GithubWords),
     portfolio |-> FirstMatch(Flatten(text, 1), UrlWords)]

\* str.split(sep) for a separator out of a set: the pieces between separators
RECURSIVE SplitOn(_, _, _, _)
SplitOn(words, seps, i, piece) ==
    IF i > Len(words) THEN <<piece>>
    ELSE IF words[i] \in seps THEN <<piece>> \o SplitOn(words, seps, i + 1, <<>>)
    ELSE SplitOn(words, seps, i + 1, Append(piece, words[i]))

\* for skill in skills_list: if skill: skills.append(...)
RECURSIVE SkillEntries(_, _, _)
SkillEntries(skills_list, i, category) ==
    IF i > Len(skills_list) THEN <<>>
    ELSE (IF skills_list[i] # <<>>
          THEN <<[name |-> skills_list[i], category |-> category]>>
          ELSE <<>>)
         \o SkillEntries(skills_list, i + 1, category)

\* a line with ':' in it, c being the place of the first colon
SkillsAfterColon(line, c) ==
    SkillEntries(SplitOn(SubSeq(line, c + 1, Len(line)), {","}, 1, <<>>), 1,
                 SubSeq(line, 1, c - 1))

\* the body of the loop over the lines of the skills section
SkillsOfLine(line) ==
    IF FirstWord(line, {":"}) = 0 THEN <<>>
    ELSE SkillsAfterColon(line, FirstWord(line, {":"}))

RECURSIVE SkillsOfLines(_, _)
SkillsOfLines(lines, i) ==
    IF i > Len(lines) THEN <<>>
    ELSE SkillsOfLine(lines[i]) \o SkillsOfLines(lines, i + 1)

extract_skills(sections) == SkillsOfLines(FirstSection(sections, {"SKILLS"}), 1)

\* \d{4}
YearWords == {"2019", "2021"}

\* (?:-|en dash|to)
DateSeparators == {"-", "to"}

\* (?:Present|Current|Now)
PresentWords == {"Present", "Current", "Now"}

\* Texts write a date as a year, without a month.  date_pattern of
\* extract_education at the leftmost year j: year - year, year - Present, year
DateEnd(line, j) ==
    IF j + 2 <= Len(line) /\ line[j + 1] \in DateSeparators
       /\ line[j + 2] \in YearWords \cup PresentWords
    THEN j + 2
    ELSE j

\* str.replace(old, ''): the words without any occurrence of old
RECURSIVE RemoveAll(_, _)
RemoveAll(words, old) ==
    IF old = <<>> \/ Len(words) < Len(old) THEN words
    ELSE IF SubSeq(words, 1, Len(old)) = old
    THEN RemoveAll(SubSeq(words, Len(old) + 1, Len(words)), old)
    ELSE <<words[1]>> \o RemoveAll(SubSeq(words, 2, Len(words)), old)

\* lines 158-168, j being the place of the date in the line (0: no date) and
\* date_parts the pieces of the date around its separators
InstitutionFrom(entry, line, j, date_parts) ==
    IF j = 0 THEN [entry EXCEPT !.institution = line]
    ELSE IF Len(date_parts) > 1
    THEN [entry EXCEPT !.institution = RemoveAll(line, SubSeq(line, j, DateEnd(line, j))),
                       !.start_date = date_parts[1], !.end_date = date_parts[2]]
    ELSE [entry EXCEPT !.institution = RemoveAll(line, SubSeq(line, j, DateEnd(line, j))),
                       !.end_date = date_parts[1]]

InstitutionLine(entry, line, j) ==
    InstitutionFrom(entry, line, j,
        IF j = 0 THEN <<>>
        ELSE SplitOn(SubSeq(line, j, DateEnd(line, j)), DateSeparators, 1, <<>>))

\* degree_patterns, in order; the search ignores case
degree_patterns ==
    <<{"Bachelor", "BS", "BA"}, {"Master", "MS", "MA"}, {"PhD"},
      {"Diploma", "Certificate", "Associate"}>>

\* words [A-Za-z\s]+ does not run over
NotLetters == YearWords \cup Attached \cup {"-", "3.8", "*"}

\* in\s+([A-Za-z\s]+): the words after the first "in", as far as letters go
RECURSIVE LetterRun(_, _)
LetterRun(line, i) ==
    IF i > Len(line) \/ line[i] \in NotLetters THEN <<>>
    ELSE <<line[i]>> \o LetterRun(line, i + 1)

FieldOfStudy(line) ==
    IF FirstWord(line, {"in"}) = 0 \/ LetterRun(line, FirstWord(line, {"in"}) + 1) = <<>>
    THEN <<>>
    ELSE LetterRun(line, FirstWord(line, {"in"}) + 1)

\* ([0-4]\.[0-9]+)
GpaWords == {"3.8"}

\* (?:GPA|...)[:\s]*([0-4]\.[0-9]+)
Gpa(line) ==
    IF \E i \in 1..(Len(line) - 1) : line[i] = "GPA" /\ line[i + 1] \in GpaWords
    THEN <<"3.8">>
    ELSE IF \E i \in 1..(Len(line) - 2) :
               line[i] = "GPA" /\ line[i + 1] = ":" /\ line[i + 2] \in GpaWords
    THEN <<"3.8">>
    ELSE <<>>

\* lines 171-190, p being the first degree pattern that matches the line (0: none)
DegreeLine(entry, line, p) ==
    IF p = 0 THEN [entry EXCEPT !.gpa = Gpa(line)]
    ELSE [entry EXCEPT !.degree = <<line[FirstWord(line, degree_patterns[p])]>>,
                       !.field_of_study = FieldOfStudy(line),
                       !.gpa = Gpa(line)]

BlankEducation ==
    [institution |-> <<>>, degree |-> <<>>, field_of_study |-> <<>>,
     start_date |-> <<>>, end_date |-> <<>>, gpa |-> <<>>]

\* one round of the while loop: the entry of the line at i and, when there is
\* one, of the line after it
EducationEntry(lines, i) ==
    IF i + 1 > Len(lines)
    THEN InstitutionLine(BlankEducation, lines[i], FirstWord(lines[i], YearWords))
    ELSE DegreeLine(InstitutionLine(BlankEducation, lines[i], FirstWord(lines[i], YearWords)),
                    lines[i + 1],
                    FirstIndex({p \in DOMAIN degree_patterns :
                                   FirstWord(lines[i + 1], degree_patterns[p]) # 0}))

RECURSIVE EducationLoop(_, _)
EducationLoop(lines, i) ==
    IF i > Len(lines) THEN <<>>
    ELSE <<EducationEntry(lines, i)>> \o EducationLoop(lines, i + 2)

extract_education(sections) ==
    EducationLoop(FirstSection(sections, {"EDUCATION", "ACADEMIC", "QUALIFICATION"}), 1)

\* words that hold intern, engineer, developer or analyst, case ignored
JobWords == {"Engineer", "Intern", "Developer", "Analyst"}

\* a variant that looks for the keywords only
StartsEntry_KeywordsOnly(line) == FirstWord(line, JobWords) # 0

\* re.search(date_pattern, line) or any(keyword in line.lower() ...)
StartsEntry(line) ==
    FirstWord(line, YearWords) # 0 \/ FirstWord(line, JobWords) # 0

\* lines 211-224: the non-empty lines grouped into entries
RECURSIVE GroupEntries(_, _, _, _)
GroupEntries(lines, i, current_entry, starts) ==
    IF i > Len(lines)
    THEN (IF current_entry # <<>> THEN <<current_entry>> ELSE <<>>)
    ELSE IF lines[i] = <<>> THEN GroupEntries(lines, i + 1, current_entry, starts)
    ELSE IF starts[i]
    THEN (IF current_entry # <<>> THEN <<current_entry>> ELSE <<>>)
         \o GroupEntries(lines, i + 1, <<lines[i]>>, starts)
    ELSE GroupEntries(lines, i + 1, Append(current_entry, lines[i]), starts)

\* re.findall(date_pattern, position_line)
RECURSIVE FindYears(_, _)
FindYears(line, i) ==
    IF i > Len(line) THEN <<>>
    ELSE (IF line[i] \in YearWords THEN <<line[i]>> ELSE <<>>) \o FindYears(line, i + 1)

\* for date in date_matches: position_line = position_line.replace(date, '')
RECURSIVE RemoveEach(_, _, _)
RemoveEach(line, date_matches, i) ==
    IF i > Len(date_matches) THEN line
    ELSE RemoveEach(RemoveAll(line, <<date_matches[i]>>), date_matches, i + 1)

\* str.rstrip of the dashes
RECURSIVE RStripDashes(_)
RStripDashes(line) ==
    IF line # <<>> /\ line[Len(line)] = "-"
    THEN RStripDashes(SubSeq(line, 1, Len(line) - 1))
    ELSE line

\* lines 234-252, date_matches being the dates of the entry's first line
ExperienceFrom(entry_lines, date_matches) ==
    [position |-> RStripDashes(RemoveEach(entry_lines[1], date_matches, 1)),
     company |-> IF Len(entry_lines) > 1 THEN entry_lines[2] ELSE <<>>,
     start_date |-> IF Len(date_matches) >= 2 THEN <<date_matches[1]>> ELSE <<>>,
     end_date |-> IF Len(date_matches) >= 2 THEN <<date_matches[2]>>
                  ELSE IF Len(date_matches) = 1 THEN <<date_matches[1]>>
                  ELSE <<>>,
     description |-> IF Len(entry_lines) > 2
                     THEN SubSeq(entry_lines, 3, Len(entry_lines)) ELSE <<>>]

\* if experience_entry["position"] or experience_entry["company"]: append
KeepEntry(entry) ==
    IF entry.position # <<>> \/ entry.company # <<>> THEN <<entry>> ELSE <<>>

RECURSIVE ExperienceEntries(_, _)
ExperienceEntries(entries, i) ==
    IF i > Len(entries) THEN <<>>
    ELSE KeepEntry(ExperienceFrom(entries[i], FindYears(entries[i][1], 1)))
         \o ExperienceEntries(entries, i + 1)

\* the entries of an experience text
ExperienceOf(lines) ==
    ExperienceEntries(
        GroupEntries(lines, 1, <<>>, [i \in DOMAIN lines |-> StartsEntry(lines[i])]), 1)

extract_experience(sections) ==
    ExperienceOf(FirstSection(sections, {"EXPERIENCE", "EMPLOYMENT", "WORK"}))

\* projects_text: the contents of every section with PROJECT in its name
RECURSIVE ProjectsText(_, _)
ProjectsText(sections, i) ==
    IF i > Len(sections) THEN <<>>
    ELSE (IF NameHas(sections[i].name, {"PROJECT"}) THEN sections[i].content ELSE <<>>)
         \o ProjectsText(sections, i + 1)

\* the entries of tech_keywords that a text below can name, in list order
tech_keywords == <<"Python", "Docker">>

\* found_techs, in the order of tech_keywords
RECURSIVE FoundTechs(_, _)
FoundTechs(words, k) ==
    IF k > Len(tech_keywords) THEN <<>>
    ELSE (IF FirstWord(words, {tech_keywords[k]}) # 0 THEN <<tech_keywords[k]>> ELSE <<>>)
         \o FoundTechs(words, k + 1)

\* (?:github\.com|gitlab\.com|...)/[\w.-]+/[\w.-]+
RepoWords == {"github.com/jane/tool"}

\* lines 293-311 for one entry
ProjectFrom(entry_lines) ==
    [name |-> entry_lines[1],
     description |-> IF Len(entry_lines) > 1
                     THEN SubSeq(entry_lines, 2, Len(entry_lines)) ELSE <<>>,
     technologies |-> FoundTechs(Flatten(entry_lines, 1), 1),
     url |-> FirstMatch(Flatten(entry_lines, 1), RepoWords)]

RECURSIVE ProjectEntries(_, _)
ProjectEntries(entries, i) ==
    IF i > Len(entries) THEN <<>>
    ELSE <<ProjectFrom(entries[i])>> \o ProjectEntries(entries, i + 1)

\* a new entry starts at every line that does not start with the bullet,
\* which texts write "*"
ProjectsOf(lines) ==
    ProjectEntries(
        GroupEntries(lines, 1, <<>>, [i \in DOMAIN lines |-> lines[i] = <<>> \/ lines[i][1] # "*"]),
        1)

extract_projects(sections) == ProjectsOf(ProjectsText(sections, 1))

\* The state of a ResumeExtractor after extract_all: its sections and the
\* dictionary returned
Extracted(status, sections, contact_info, skills, education, experience, projects) ==
    [status |-> status, sections |-> sections, contact_info |-> contact_info,
     skills |-> skills, education |-> education, experience |-> experience,
     projects |-> projects]

\* extract_all on the extractor whose sections are given
ExtractFrom(text, sections) ==
    Extracted("returned", sections, extract_contact_info(text, sections),
              extract_skills(sections), extract_education(sections),
              extract_experience(sections), extract_projects(sections))

\* ResumeExtractor.__init__ on the text, then extract_all
extract_all(text) == ExtractFrom(text, _split_into_sections(text))

MaxLines == 4

\* the lines a resume text is made of
Lines ==
    {<<>>,
     <<"Jane", "Doe">>,
     <<"jane@x.io">>,
     <<"SKILLS">>,
     <<"Languages", ":", "Python", ",", "Go">>,
     <<"EDUCATION">>,
     <<"MIT", "2019", "-", "2021">>,
     <<"BS", "in", "Physics", "GPA", ":", "3.8">>,
     <<"EXPERIENCE">>,
     <<"Engineer", "2021", "-", "Present">>,
     <<"PROJECTS">>,
     <<"ACADEMIC", "PROJECTS">>,
     <<"*", "Python", "tool">>}

BlankContactInfo ==
    [name |-> <<>>, email |-> <<>>, phone |-> <<>>, location |-> <<>>,
     linkedin |-> <<>>, github |-> <<>>, portfolio |-> <<>>]

NotExtracted == Extracted("pending", <<>>, BlankContactInfo, <<>>, <<>>, <<>>, <<>>)

InitExtract ==
    /\ resume_text \in SeqsUpTo(Lines, MaxLines)
    /\ extracted = NotExtracted
    /\ raw_skill = <<>>
    /\ normalized = [status |-> "idle"]
    /\ clock = 0
    /\ upload_dir = <<>>
    /\ calls = <<>>
    /\ years_skill = <<>>
    /\ years_resume = <<>>
    /\ skill_years = [status |-> "idle"]
    /\ resumes_collection = <<>>
    /\ tag_collection = <<>>
    /\ tag_call = [op |-> "idle"]
    /\ resume_data = CandidateResume(<<>>)
    /\ job_description = EmptyJD
    /\ model = <<>>
    /\ match_result = Pending
    /\ lookup_skill = <<>>
    /\ skill_match = NoCall
    /\ jd_text = <<>>
    /\ parsed_jd = [status |-> "idle"]
    /\ request = [entry |-> "none"]
    /\ files = {}
    /\ acquired = [status |-> "idle"]

ExtractAll ==
    /\ extracted.status = "pending"
    /\ extracted' = extract_all(resume_text)
    /\ UNCHANGED <<resume_text, matcherVars, findVars, parserVars, uploadVars, normalizeVars, concurrentVars, yearsVars, tagVars>>

NextExtract == ExtractAll

SpecExtract == InitExtract /\ [][NextExtract]_vars

-----------------------------------------------------------------------------
(* _normalize_skill on its own: a name normalised, then normalised again *)

MaxNameLen == 3

\* the characters of the names: letters of both cases, the two characters
\* that are removed, a dot and whitespace that is not a space
NameChars == {"N", "o", "-", " ", "\t", "."}

Str_Node_JS == <<"N", "o", "d", "e", " ", "J", "S">>

Str_nodejs == <<"n", "o", "d", "e", "j", "s">>

Str_Node_dot_js == <<"N", "o", "d", "e", ".", "j", "s">>

Str_node_js == <<"n", "o", "d", "e", " ", "j", "s">>

SkillNames ==
    SeqsUpTo(NameChars, MaxNameLen)
        \cup {Str_Node_JS, Str_nodejs, Str_Node_dot_js, Str_node_js}

InitNormalize ==
    /\ raw_skill \in SkillNames
    /\ normalized = [status |-> "pending", once |-> <<>>, twice |-> <<>>]
    /\ resume_data = CandidateResume(<<>>)
    /\ job_description = EmptyJD
    /\ model = <<>>
    /\ match_result = Pending
    /\ lookup_skill = <<>>
    /\ skill_match = NoCall
    /\ jd_text = <<>>
    /\ parsed_jd = [status |-> "idle"]
    /\ request = [entry |-> "none"]
    /\ files = {}
    /\ acquired = [status |-> "idle"]
    /\ resume_text = <<>>
    /\ extracted = [status |-> "idle"]
    /\ clock = 0
    /\ upload_dir = <<>>
    /\ calls = <<>>
    /\ years_skill = <<>>
    /\ years_resume = <<>>
    /\ skill_years = [status |-> "idle"]
    /\ resumes_collection = <<>>
    /\ tag_collection = <<>>
    /\ tag_call = [op |-> "idle"]

\* self._normalize_skill(skill)
NormalizeSkill ==
    /\ normalized.status = "pending"
    /\ normalized' = [normalized EXCEPT !.status = "once",
                                        !.once = _normalize_skill(raw_skill)]
    /\ UNCHANGED <<raw_skill, matcherVars, findVars, parserVars, uploadVars, extractVars, concurrentVars, yearsVars, tagVars>>

\* self._normalize_skill applied to its own result
NormalizeAgain ==
    /\ normalized.status = "once"
    /\ normalized' = [normalized EXCEPT !.status = "twice",
                                        !.twice = _normalize_skill(normalized.once)]
    /\ UNCHANGED <<raw_skill, matcherVars, findVars, parserVars, uploadVars, extractVars, concurrentVars, yearsVars, tagVars>>

NextNormalize == NormalizeSkill \/ NormalizeAgain

SpecNormalize == InitNormalize /\ [][NextNormalize]_vars

-----------------------------------------------------------------------------
(* _get_skill_years on its own: the years of one skill in an experience list *)

MaxEntries == 2

\* a date token that is no number
Word == [isNum |-> FALSE, val |-> 0]

\* start_date and end_date: absent, a year, a word, or blanks only
YearDates ==
    {None, Some(DateStr(<<Numeral(2018)>>)), Some(DateStr(<<Numeral(2021)>>)),
     Some(DateStr(<<Word>>)), Some(DateStr(<<>>))}

\* descriptions: absent, one that names python and docker, one that names go
YearsDescriptions == {None, Some(Str_python \o <<" ">> \o Str_docker), Some(Str_go)}

YearsPool == [description : YearsDescriptions, start_date : YearDates, end_date : YearDates]

YearsResume(experience) ==
    [kind |-> "Mapping", skills |-> <<>>, experience |-> experience,
     education |-> <<>>, contact_info |-> Some(BlankContact)]

InitYears ==
    /\ years_skill \in {Str_docker, Str_Python}
    /\ years_resume \in {YearsResume(e) : e \in SeqsUpTo(YearsPool, MaxEntries)}
    /\ skill_years = [status |-> "pending", exc |-> "none", years |-> None]
    /\ resumes_collection = <<>>
    /\ tag_collection = <<>>
    /\ tag_call = [op |-> "idle"]
    /\ resume_data = CandidateResume(<<>>)
    /\ job_description = EmptyJD
    /\ model = <<>>
    /\ match_result = Pending
    /\ lookup_skill = <<>>
    /\ skill_match = NoCall
    /\ jd_text = <<>>
    /\ parsed_jd = [status |-> "idle"]
    /\ request = [entry |-> "none"]
    /\ files = {}
    /\ acquired = [status |-> "idle"]
    /\ resume_text = <<>>
    /\ extracted = [status |-> "idle"]
    /\ raw_skill = <<>>
    /\ normalized = [status |-> "idle"]
    /\ clock = 0
    /\ upload_dir = <<>>
    /\ calls = <<>>

\* self._get_skill_years(skill, resume_data)
GetSkillYears ==
    /\ skill_years.status = "pending"
    /\ skill_years' = [status |-> "done",
                       exc |-> _get_skill_years(years_skill, years_resume).exc,
                       years |-> _get_skill_years(years_skill, years_resume).years]
    /\ UNCHANGED <<years_skill, years_resume, matcherVars, findVars, parserVars,
                   uploadVars, extractVars, normalizeVars, concurrentVars, tagVars>>

NextYears == GetSkillYears

SpecYears == InitYears /\ [][NextYears]_vars

-----------------------------------------------------------------------------
(* Two upload_resume calls at once (app/routers/resume.py)                   *)

\* The handler has no await, so two calls interleave only when they run in
\* different workers; the workers share UPLOAD_DIR and the wall clock.  A call
\* is its position (start, named, saved, extracted, built, done) and its
\* locals; the content of an upload is the name of the call that sent it.

MaxClock == 2

Callers == {"A", "B"}

\* file_ext of the two allowed kinds a call may upload
UploadExts == {Ext_pdf, Ext_docx}

\* safe_filename: resume_<timestamp><file_ext>
SafeFilename(timestamp, file_ext) == [timestamp |-> timestamp, ext |-> file_ext]

UploadPaths == {SafeFilename(t, e) : t \in 0..MaxClock, e \in UploadExts}

Absent == "absent"

NoPath == [timestamp |-> 0 - 1, ext |-> <<>>]

\* a call before its first statement
NewCall(file_ext) ==
    [pc |-> "start", ext |-> file_ext, file_path |-> NoPath, text_of |-> "none",
     outcome |-> "none", removed_in_use |-> FALSE]

InitConcurrent ==
    /\ clock = 0
    /\ upload_dir = [f \in UploadPaths |-> Absent]
    /\ calls \in {[c \in Callers |-> NewCall(e[c])] : e \in [Callers -> UploadExts]}
    /\ resume_data = CandidateResume(<<>>)
    /\ job_description = EmptyJD
    /\ model = <<>>
    /\ match_result = Pending
    /\ lookup_skill = <<>>
    /\ skill_match = NoCall
    /\ jd_text = <<>>
    /\ parsed_jd = [status |-> "idle"]
    /\ request = [entry |-> "none"]
    /\ files = {}
    /\ acquired = [status |-> "idle"]
    /\ resume_text = <<>>
    /\ extracted = [status |-> "idle"]
    /\ raw_skill = <<>>
    /\ normalized = [status |-> "idle"]
    /\ years_skill = <<>>
    /\ years_resume = <<>>
    /\ skill_years = [status |-> "idle"]
    /\ resumes_collection = <<>>
    /\ tag_collection = <<>>
    /\ tag_call = [op |-> "idle"]

idleVars ==
    <<matcherVars, findVars, parserVars, uploadVars, extractVars, normalizeVars, yearsVars,
      tagVars>>

\* the wall clock passes a second
Tick ==
    /\ clock < MaxClock
    /\ clock' = clock + 1
    /\ UNCHANGED <<upload_dir, calls, idleVars>>

\* lines 83-86: the path is made of the current second and the extension
GenerateName(c) ==
    /\ calls[c].pc = "start"
    /\ calls' = [calls EXCEPT ![c].pc = "named",
                              ![c].file_path = SafeFilename(clock, calls[c].ext)]
    /\ UNCHANGED <<clock, upload_dir, idleVars>>

\* lines 90-91: open(file_path, "wb") truncates the path and the upload is copied
SaveFile(c) ==
    /\ calls[c].pc = "named"
    /\ upload_dir' = [upload_dir EXCEPT ![calls[c].file_path] = c]
    /\ calls' = [calls EXCEPT ![c].pc = "saved"]
    /\ UNCHANGED <<clock, idleVars>>

\* lines 96-97: ResumeExtractor reads whatever the path holds; a path that is
\* gone gives the empty text (_extract_text swallows the error)
ExtractFile(c) ==
    /\ calls[c].pc = "saved"
    /\ calls' = [calls EXCEPT ![c].pc = "extracted",
                              ![c].text_of = upload_dir[calls[c].file_path]]
    /\ UNCHANGED <<clock, upload_dir, idleVars>>

\* lines 110-138: os.path.getsize(file_path) raises when the path is gone
\* and the handler answers 500
BuildRecord(c) ==
    /\ calls[c].pc = "extracted"
    /\ calls' = [calls EXCEPT
                    ![c].pc = "built",
                    ![c].outcome = IF upload_dir[calls[c].file_path] = Absent
                                   THEN "HTTP 500" ELSE "returned"]
    /\ UNCHANGED <<clock, upload_dir, idleVars>>

\* another call has saved its upload at the path and has not yet built its record
InUseByOther(c, path) ==
    \E o \in Callers \ {c} :
        calls[o].file_path = path /\ calls[o].pc \in {"saved", "extracted"}

\* lines 158-164: the finally clause removes the path when it exists
RemoveFile(c) ==
    /\ calls[c].pc = "built"
    /\ upload_dir' = [upload_dir EXCEPT ![calls[c].file_path] = Absent]
    /\ calls' = [calls EXCEPT
                    ![c].pc = "done",
                    ![c].removed_in_use =
                        /\ upload_dir[calls[c].file_path] # Absent
                        /\ InUseByOther(c, calls[c].file_path)]
    /\ UNCHANGED <<clock, idleVars>>

NextConcurrent ==
    \/ Tick
    \/ \E c \in Callers :
          \/ GenerateName(c)
          \/ SaveFile(c)
          \/ ExtractFile(c)
          \/ BuildRecord(c)
          \/ RemoveFile(c)

SpecConcurrent == InitConcurrent /\ [][NextConcurrent]_vars

-----------------------------------------------------------------------------
(* The tag handlers of app/routers/resume_mongo.py: save_resume,              *)
(* add_tags_to_resume and remove_tag_from_resume on the two collections       *)

MaxResumes == 2

MaxTags == 2

TagNames == {"backend", "senior"}

\* tag_collection.find_one({"name": name}): the place of the tag document
\* (its _id), 0 for None
FindTag(tag_documents, name) ==
    FirstIndex({i \in DOMAIN tag_documents : tag_documents[i] = name})

\* the tag collection after find_one and, when nothing was found, insert_one
WithTag(tag_documents, name) ==
    IF FindTag(tag_documents, name) # 0 THEN tag_documents ELSE Append(tag_documents, name)

\* the loop over the tag names of save_resume (lines 160-177) and of
\* add_tags_to_resume (lines 389-400): one {"id", "name"} object per name given
RECURSIVE ProcessTags(_, _, _, _)
ProcessTags(names, i, tag_documents, processed_tags) ==
    IF i > Len(names) THEN [tag_documents |-> tag_documents, tags |-> processed_tags]
    ELSE ProcessTags(names, i + 1, WithTag(tag_documents, names[i]),
             Append(processed_tags,
                    [id |-> FindTag(WithTag(tag_documents, names[i]), names[i]),
                     name |-> names[i]]))

\* for new_tag in tag_objects: if not any(et.get("name") == new_tag["name"] ...):
\*     existing_tags.append(new_tag)
RECURSIVE AddNewTags(_, _, _)
AddNewTags(existing_tags, tag_objects, i) ==
    IF i > Len(tag_objects) THEN existing_tags
    ELSE AddNewTags(
             IF \E k \in DOMAIN existing_tags : existing_tags[k].name = tag_objects[i].name
             THEN existing_tags ELSE Append(existing_tags, tag_objects[i]),
             tag_objects, i + 1)

\* [tag for tag in existing_tags if tag.get("name") != tag_name]
WithoutTag(existing_tags, tag_name) ==
    SelectSeq(existing_tags, LAMBDA tag : tag.name # tag_name)

TagCall(op, resume_id, names, before, status) ==
    [op |-> op, resume_id |-> resume_id, names |-> names, before |-> before,
     status |-> status]

InitTags ==
    /\ resumes_collection = <<>>
    /\ tag_collection = <<>>
    /\ tag_call = TagCall("none", 0, <<>>, <<>>, "none")
    /\ resume_data = CandidateResume(<<>>)
    /\ job_description = EmptyJD
    /\ model = <<>>
    /\ match_result = Pending
    /\ lookup_skill = <<>>
    /\ skill_match = NoCall
    /\ jd_text = <<>>
    /\ parsed_jd = [status |-> "idle"]
    /\ request = [entry |-> "none"]
    /\ files = {}
    /\ acquired = [status |-> "idle"]
    /\ resume_text = <<>>
    /\ extracted = [status |-> "idle"]
    /\ raw_skill = <<>>
    /\ normalized = [status |-> "idle"]
    /\ clock = 0
    /\ upload_dir = <<>>
    /\ calls = <<>>
    /\ years_skill = <<>>
    /\ years_resume = <<>>
    /\ skill_years = [status |-> "idle"]

otherVars ==
    <<matcherVars, findVars, parserVars, uploadVars, extractVars, normalizeVars,
      concurrentVars, yearsVars>>

\* save_resume: the tags of the request are processed one by one and the
\* document is inserted with the processed list (an empty list is kept as it is)
SaveResume ==
    \E names \in SeqsUpTo(TagNames, MaxTags) :
        /\ Len(resumes_collection) < MaxResumes
        /\ tag_collection' = ProcessTags(names, 1, tag_collection, <<>>).tag_documents
        /\ resumes_collection' =
               Append(resumes_collection, ProcessTags(names, 1, tag_collection, <<>>).tags)
        /\ tag_call' = TagCall("save", Len(resumes_collection) + 1, names, <<>>, "saved")
        /\ UNCHANGED otherVars

\* add_tags_to_resume: HTTP 404 before anything is written when the resume is
\* not found; else the tag objects are built and the new ones appended
AddTagsToResume ==
    \E resume_id \in 1..MaxResumes, names \in SeqsUpTo(TagNames, MaxTags) :
        IF resume_id > Len(resumes_collection)
        THEN /\ tag_call' = TagCall("add", resume_id, names, <<>>, "HTTP 404")
             /\ UNCHANGED <<resumes_collection, tag_collection, otherVars>>
        ELSE /\ tag_collection' = ProcessTags(names, 1, tag_collection, <<>>).tag_documents
             /\ resumes_collection' =
                    [resumes_collection EXCEPT ![resume_id] =
                        AddNewTags(@, ProcessTags(names, 1, tag_collection, <<>>).tags, 1)]
             /\ tag_call' = TagCall("add", resume_id, names, resumes_collection[resume_id],
                                    "updated")
             /\ UNCHANGED otherVars

\* remove_tag_from_resume: HTTP 404 when the resume is not found; else the
\* list is stored without the tags of that name
RemoveTagFromResume ==
    \E resume_id \in 1..MaxResumes, tag_name \in TagNames :
        IF resume_id > Len(resumes_collection)
        THEN /\ tag_call' = TagCall("remove", resume_id, <<tag_name>>, <<>>, "HTTP 404")
             /\ UNCHANGED <<resumes_collection, tag_collection, otherVars>>
        ELSE /\ resumes_collection' =
                    [resumes_collection EXCEPT ![resume_id] = WithoutTag(@, tag_name)]
             /\ tag_call' = TagCall("remove", resume_id, <<tag_name>>,
                                    resumes_collection[resume_id], "updated")
             /\ UNCHANGED <<tag_collection, otherVars>>

NextTags == SaveResume \/ AddTagsToResume \/ RemoveTagFromResume

SpecTags == InitTags /\ [][NextTags]_vars

-----------------------------------------------------------------------------
(* Properties of the scoring engine (SpecMatch) *)

Returned == match_result.status = "returned"

Raised == match_result.status = "raised"

RECURSIVE SumWeights(_, _)
SumWeights(jd_skills, i) ==
    IF i > Len(jd_skills) THEN 0
    ELSE jd_skills[i].weight * 100 + SumWeights(jd_skills, i + 1)

\* total weight of a job description's required and preferred skills
TotalWeight(jd) == SumWeights(jd.required_skills, 1) + SumWeights(jd.preferred_skills, 1)

\* C1: every report carries a match_percentage between 0 and 100, whatever
\* weights the job description's skills have.
C1_PercentageInRange ==
    Returned => (0 <= match_result.match_percentage
                 /\ match_result.match_percentage <= 10000)

\* C2: match_resume never raises, and a resume without skills or a job
\* description without requirements gets 0 % with a non-empty explanation.
C2_MatchNeverFails ==
    /\ ~Raised
    /\ (Returned /\ (resume_data.skills = <<>>
                     \/ (job_description.required_skills = <<>>
                         /\ job_description.preferred_skills = <<>>)))
          => (match_result.match_percentage = 0 /\ match_result.explanation # <<>>)

\* C5: when the total weight of the job description is 0 the percentage is
\* computed without a division: no ZeroDivisionError, and the report says 0.
C5_ZeroTotalWeightGivesZero ==
    (match_result.status # "pending" /\ TotalWeight(job_description) = 0)
        => (match_result.exc # "ZeroDivisionError"
            /\ (Returned => match_result.match_percentage = 0))

\* a report for a job description whose weights cancel to 0, with a match found
C5_Witness ==
    /\ Returned
    /\ TotalWeight(job_description) = 0
    /\ job_description.required_skills # <<>>
    /\ match_result.skill_matches # <<>>
    /\ match_result.match_percentage = 0

\* a report for the job description without any skill
C5_WitnessEmpty ==
    /\ Returned
    /\ job_description.required_skills = <<>>
    /\ job_description.preferred_skills = <<>>

\* what _find_skill_match decides for one job-description skill: "none", or the
\* match type with its similarity
OutcomeFor(name, resume, emb) ==
    LET m == _find_skill_match(name, resume.skills, resume, emb)
    IN  IF m.exc # "none" \/ m.match = None THEN <<"none", 0>>
        ELSE <<m.match[1].match_type, m.match[1].similarity_score>>

\* resume r2 differs from r1, on job description jd, in exactly one required
\* skill that r1 leaves unmatched and r2 matches
OneMoreRequiredMatch(r1, r2, jd, emb) ==
    /\ \A i \in DOMAIN jd.preferred_skills :
          OutcomeFor(jd.preferred_skills[i].name, r1, emb)
              = OutcomeFor(jd.preferred_skills[i].name, r2, emb)
    /\ \E i \in DOMAIN jd.required_skills :
          /\ OutcomeFor(jd.required_skills[i].name, r1, emb)[1] = "none"
          /\ OutcomeFor(jd.required_skills[i].name, r2, emb)[1] # "none"
          /\ \A j \in DOMAIN jd.required_skills \ {i} :
                OutcomeFor(jd.required_skills[j].name, r1, emb)
                    = OutcomeFor(jd.required_skills[j].name, r2, emb)

\* C6: with the job description fixed, a resume that matches one more required
\* skill (every other outcome unchanged) never gets a lower match_percentage.
C6_MonotonicInRequiredMatches ==
    Returned =>
        \A skills2 \in SeqsUpTo(ResumeNames, MaxSkills) :
            LET r2 == [resume_data EXCEPT !.skills = skills2]
            IN  OneMoreRequiredMatch(resume_data, r2, job_description, model)
                    => match_resume(r2, job_description, model).match_percentage
                           >= match_result.match_percentage

-----------------------------------------------------------------------------
(* Properties of _find_skill_match (SpecFind) *)

HasDirectCandidate ==
    \E i \in DOMAIN resume_data.skills :
        _normalize_skill(resume_data.skills[i]) = _normalize_skill(lookup_skill)

\* C4: when some candidate's normalised name equals the required skill's, the
\* match returned is direct with similarity 1.0, whatever else the list holds.
C4_DirectMatchDominates ==
    (skill_match.status = "done" /\ HasDirectCandidate)
        => /\ skill_match.match # None
           /\ skill_match.match[1].match_type = "direct"
           /\ skill_match.match[1].similarity_score = 100

\* a direct candidate listed after a taxonomy-related one and after one the
\* embedder rates above the threshold
C4_Witness ==
    /\ skill_match.status = "done"
    /\ skill_match.match # None
    /\ skill_match.match[1].match_type = "direct"
    /\ Len(resume_data.skills) = 3
    /\ resume_data.skills[1] = Str_docker
    /\ resume_data.skills[2] = Str_go
    /\ model[<<lookup_skill, Str_go>>] > RelatedThreshold
    /\ resume_data.skills[3] = Str_Kubernetes

\* the categories whose related list holds the required skill and a candidate
SharedCategories ==
    {c \in DOMAIN related_skills :
        /\ InList(_normalize_skill(lookup_skill), NormalizedRelated[c])
        /\ \E i \in DOMAIN resume_data.skills :
              InList(_normalize_skill(resume_data.skills[i]), NormalizedRelated[c])}

\* the candidates that are members of the first such category
SharingCandidates ==
    {i \in DOMAIN resume_data.skills :
        InList(_normalize_skill(resume_data.skills[i]),
               NormalizedRelated[CHOOSE c \in SharedCategories :
                                     \A d \in SharedCategories : c <= d])}

\* the embedder that gives every pair the similarity v
ConstantEmbedder(v) == [p \in FindRequired \X FindCandidates |-> v]

\* a job description with the one required skill kubernetes of weight 1.0
KubernetesJob ==
    [required_skills |-> <<RequiredSkill(Str_kubernetes, None, "required", 10)>>,
     preferred_skills |-> <<>>, min_experience |-> None, education_level |-> None]

C18_WitnessTwoLists ==
    /\ skill_match.status = "done"
    /\ lookup_skill = Str_junit
    /\ resume_data.skills = <<Str_pytest, Str_spring>>
    /\ skill_match.match # None
    /\ skill_match.match[1].skill = Str_spring

\* the lookup of kubernetes in the one-skill list docker
C18_WitnessDocker ==
    /\ skill_match.status = "done"
    /\ lookup_skill = Str_kubernetes
    /\ resume_data.skills = <<Str_docker>>
    /\ skill_match.match # None
    /\ skill_match.match[1].similarity_score = 80

\* one of the two names is a substring of the other, for some candidate
HasSubstringCandidate ==
    \E i \in DOMAIN resume_data.skills :
        \/ IsSubstring(lookup_skill, resume_data.skills[i])
        \/ IsSubstring(resume_data.skills[i], lookup_skill)

\* the embedder rates no candidate above the threshold
NoAcceptedEmbedding ==
    \A i \in DOMAIN resume_data.skills :
        model[<<lookup_skill, resume_data.skills[i]>>] <= RelatedThreshold

\* C19: every lookup completes, with or without an embedder; and a lookup
\* without a direct, a taxonomy or an accepted embedding match, one of whose
\* candidates contains the required name or is contained in it, returns a
\* related match of similarity 0.7.
C19_SubstringFallback ==
    skill_match.status # "pending" =>
        /\ skill_match.status = "done"
        /\ skill_match.exc = "none"
        /\ (~HasDirectCandidate /\ SharedCategories = {} /\ NoAcceptedEmbedding
                /\ HasSubstringCandidate)
              => /\ skill_match.match # None
                 /\ skill_match.match[1].match_type = "related"
                 /\ skill_match.match[1].similarity_score = 70

-----------------------------------------------------------------------------
(* Properties of JDParser.parse (SpecParse) *)

Parsed == parsed_jd.status \in {"returned", "raised"}

\* C3: parse returns a record for every text, the empty one and those with a
\* number, a number with '+' or a range after a skill included; a field no
\* pattern matches is None or empty, and the title of a text without a
\* sentence is the default title.
C3_ParseNeverFails ==
    Parsed =>
        /\ parsed_jd.status = "returned"
        /\ (\A k \in DOMAIN tech_skills : ~HasWord(jd_text, tech_skills[k]))
              => (parsed_jd.required_skills = <<>> /\ parsed_jd.preferred_skills = <<>>)
        /\ (\A i \in DOMAIN jd_text : ~IsNumber(jd_text[i]))
              => parsed_jd.min_experience = None
        /\ (\A k \in DOMAIN education_levels : ~HasWord(jd_text, education_levels[k]))
              => parsed_jd.education_level = None
        /\ (jd_text = <<>> => parsed_jd.title = DefaultTitle)

\* the places of the header words of a text
HeaderPlaces(words, headers) == {i \in DOMAIN words : words[i] \in headers}

\* the text has one required-section header and one preferred-section header
HasBothHeaders(words) ==
    /\ Cardinality(HeaderPlaces(words, RequiredHeaders)) = 1
    /\ Cardinality(HeaderPlaces(words, PreferredHeaders)) = 1

\* the words of the section a header opens: up to the next header or the end
SectionWords(words, headers) ==
    LET h == CHOOSE i \in HeaderPlaces(words, headers) : TRUE
        later == {i \in HeaderPlaces(words, RequiredHeaders \cup PreferredHeaders) : i > h}
    IN  SubSeq(words, h + 1,
               IF later = {} THEN Len(words)
               ELSE (CHOOSE i \in later : \A j \in later : i <= j) - 1)

\* a list of skills holds the skill with the given importance and weight
Lists(jd_skills, name, importance, weight) ==
    \E i \in DOMAIN jd_skills :
        /\ jd_skills[i].name = name
        /\ jd_skills[i].importance = importance
        /\ jd_skills[i].weight = weight

\* C20: in a text with a required-section and a preferred-section header, in
\* either order, a vocabulary skill named in the required section is a
\* required skill of weight 1.0, and one named only in the preferred section
\* is a preferred skill of weight 0.5.
C20_SkillsClassifiedBySection ==
    (parsed_jd.status = "returned" /\ HasBothHeaders(jd_text)) =>
        \A k \in DOMAIN tech_skills :
            /\ HasWord(SectionWords(jd_text, RequiredHeaders), tech_skills[k])
                  => Lists(parsed_jd.required_skills, tech_skills[k], "required", 10)
            /\ (HasWord(SectionWords(jd_text, PreferredHeaders), tech_skills[k])
                   /\ ~HasWord(SectionWords(jd_text, RequiredHeaders), tech_skills[k]))
                  => Lists(parsed_jd.preferred_skills, tech_skills[k], "preferred", 5)

\* the place of a name in the vocabulary (0 when it is not in it)
VocabularyIndex(name) == FirstIndex({k \in DOMAIN tech_skills : tech_skills[k] = name})

\* a list of skills names vocabulary entries in strictly ascending vocabulary
\* order, so no name twice
InVocabularyOrder(jd_skills) ==
    /\ \A i \in DOMAIN jd_skills : VocabularyIndex(jd_skills[i].name) # 0
    /\ \A i, j \in DOMAIN jd_skills :
           i < j => VocabularyIndex(jd_skills[i].name) < VocabularyIndex(jd_skills[j].name)

\* C29: in a returned job description the required and the preferred list
\* share no name, neither holds a name twice, both follow the order of the
\* vocabulary, required entries weigh 1.0 with importance 'required' and
\* preferred entries 0.5 with importance 'preferred'.
C29_SkillListsWellFormed ==
    parsed_jd.status = "returned" =>
        /\ \A i \in DOMAIN parsed_jd.required_skills :
               \A j \in DOMAIN parsed_jd.preferred_skills :
                   parsed_jd.required_skills[i].name # parsed_jd.preferred_skills[j].name
        /\ InVocabularyOrder(parsed_jd.required_skills)
        /\ InVocabularyOrder(parsed_jd.preferred_skills)
        /\ \A i \in DOMAIN parsed_jd.required_skills :
               /\ parsed_jd.required_skills[i].weight = 10
               /\ parsed_jd.required_skills[i].importance = "required"
        /\ \A j \in DOMAIN parsed_jd.preferred_skills :
               /\ parsed_jd.preferred_skills[j].weight = 5
               /\ parsed_jd.preferred_skills[j].importance = "preferred"

\* a text that names Docker before Python: the required list has Python first
C29_Witness ==
    /\ parsed_jd.status = "returned"
    /\ Len(parsed_jd.required_skills) = 2
    /\ FirstWord(jd_text, {"Docker"}) # 0
    /\ FirstWord(jd_text, {"Docker"}) < FirstWord(jd_text, {"Python"})
    /\ parsed_jd.required_skills[1].name = "Python"

\* a text with a skill in each list
C29_WitnessBothLists ==
    /\ parsed_jd.status = "returned"
    /\ Len(parsed_jd.required_skills) = 1
    /\ Len(parsed_jd.preferred_skills) = 1

-----------------------------------------------------------------------------
(* Properties of text acquisition (SpecUpload) *)

Finished == acquired.status \in {"returned", "raised"}

\* the kind a request declares: the file_type argument, or the file name's suffix
DeclaredKind == 
    IF request.entry = "extract_text_from_file" THEN request.file_type
    ELSE Suffix(request.filename)

\* the kinds an entry point supports
SupportedKinds ==
    IF request.entry = "upload_resume" THEN ALLOWED_EXTENSIONS ELSE SupportedExtensions

\* the call ended with the unsupported-format error, nothing written or run
Rejected ==
    /\ acquired.status = "raised"
    /\ acquired.detail \in {"Unsupported file type", "Invalid file type"}
    /\ acquired.created = {}
    /\ acquired.ran = <<>>
    /\ acquired.text = None

UnknownKind == request.filename.stem # "" /\ DeclaredKind \notin SupportedKinds

\* C7 as stated: at each of the three entry points a declared kind outside the
\* supported set is rejected before a file is written or a strategy is run.
C7_UnknownKindsRejected == (Finished /\ UnknownKind) => Rejected

\* C7 amended: parse_uploaded_resume and upload_resume reject a declared kind
\* outside their supported set before a file is written or a strategy is run;
\* extract_text_from_file rejects nothing and reads every file_type other
\* than pdf, doc and docx as plain text.
C7_UploadsRejectUnknownKinds ==
    /\ (Finished /\ UnknownKind /\ request.entry # "extract_text_from_file") => Rejected
    /\ (Finished /\ request.entry = "extract_text_from_file"
            /\ request.file_type \notin ALLOWED_EXTENSIONS)
          => (acquired.status = "returned" /\ acquired.ran = <<"plain">>)

\* an upload named resume.exe whose content cannot even be read is rejected
\* by upload_resume with nothing on disk
C7_Witness ==
    /\ request.entry = "upload_resume"
    /\ request.filename = Filename("resume", Some(Ext_exe))
    /\ request.fault = "read"
    /\ Rejected
    /\ files = {}

\* extract_text_from_file has read a file declared exe as plain text
C7_WitnessPlain ==
    /\ request.entry = "extract_text_from_file"
    /\ request.file_type = Ext_exe
    /\ acquired.status = "returned"
    /\ acquired.ran = <<"plain">>

\* the document cannot be read by the strategy its declared kind selects
Unreadable ==
    IF request.entry = "upload_resume" \/ DeclaredKind = Ext_pdf
    THEN request.document.format # "pdf"
    ELSE DeclaredKind \in {Ext_doc, Ext_docx} /\ request.document.format # "docx"

\* C8: a call that returns hands back text that is not empty, so no record is
\* built from an empty text; an unreadable document ends with an error.
C8_NeverEmptyText ==
    Finished =>
        /\ (acquired.status = "returned" => acquired.text[1].stripped > 0)
        /\ (acquired.record # None => acquired.record[1].built_from.stripped > 0)
        /\ ((Unreadable /\ acquired.ran # <<>>) => acquired.status = "raised")

\* C9: once parse_uploaded_resume or upload_resume has created its file, the
\* file is gone when the call ends, however it ends.
C9_TempFileReleased ==
    (Finished /\ request.entry \in {"parse_uploaded_resume", "upload_resume"})
        => acquired.created \cap files = {}

\* the length of the stripped text the primary strategy left behind: what
\* PyPDF2 read, or nothing when PdfReader raised
PrimaryLength ==
    IF request.document.format = "pdf" THEN request.document.pypdf ELSE 0

\* the places of a strategy in the strategies run
PlacesOf(strategy) == {i \in DOMAIN acquired.ran : acquired.ran[i] = strategy}

\* C26: in a call that ran ResumeExtractor, the primary strategy runs first,
\* the secondary runs at most once and after it, exactly when the primary's
\* text is shorter than 100 characters; so no document is given up before
\* the secondary has been tried.
C26_FallbackOrdering ==
    (Finished /\ request.entry = "upload_resume" /\ acquired.ran # <<>>) =>
        /\ acquired.ran[1] = "PyPDF2"
        /\ PlacesOf("pdfplumber") \subseteq {2}
        /\ (PlacesOf("pdfplumber") # {} <=> PrimaryLength < FallbackLength)

-----------------------------------------------------------------------------
(* Properties of the field extractors (SpecExtract) *)

\* the section map has a section whose name the extractor of a topic accepts
HasSection(keywords) ==
    \E i \in DOMAIN extracted.sections : NameHas(extracted.sections[i].name, keywords)

\* C10: extract_all returns a record for every text, and an extractor whose
\* section is missing returns the empty list; the name is blank when the
\* header text is empty, and the map that holds only an empty HEADER gives
\* the blank contact record and five empty results.
C10_MissingSectionTolerated ==
    extracted.status # "pending" =>
        /\ extracted.status = "returned"
        /\ ~HasSection({"SKILLS"}) => extracted.skills = <<>>
        /\ ~HasSection({"EDUCATION", "ACADEMIC", "QUALIFICATION"})
              => extracted.education = <<>>
        /\ ~HasSection({"EXPERIENCE", "EMPLOYMENT", "WORK"}) => extracted.experience = <<>>
        /\ ~HasSection({"PROJECT"}) => extracted.projects = <<>>
        /\ HeaderText(extracted.sections) = <<>> => extracted.contact_info.name = <<>>
        /\ extracted.sections = <<[name |-> HEADER, content |-> <<>>]>>
              => extracted.contact_info = BlankContactInfo

\* a resume with a name, an e-mail address and a skills section only: skills
\* are found, the three other lists are empty
C10_Witness ==
    /\ extracted.status = "returned"
    /\ extracted.skills # <<>>
    /\ extracted.contact_info.name # <<>>
    /\ ~HasSection({"EDUCATION", "ACADEMIC", "QUALIFICATION"})
    /\ ~HasSection({"EXPERIENCE", "EMPLOYMENT", "WORK"})
    /\ ~HasSection({"PROJECT"})
    /\ extracted.education = <<>>
    /\ extracted.experience = <<>>
    /\ extracted.projects = <<>>

\* the text without any line: only the empty HEADER, everything blank
C10_WitnessEmpty ==
    /\ extracted.status = "returned"
    /\ resume_text = <<>>
    /\ extracted.sections = <<[name |-> HEADER, content |-> <<>>]>>
    /\ extracted.contact_info = BlankContactInfo
    /\ extracted.skills = <<>>

-----------------------------------------------------------------------------
(* Properties of the segmenter (SpecExtract) *)

\* how often a line occurs in a list of lines
Occurrences(lines, line) == Cardinality({i \in DOMAIN lines : lines[i] = line})

\* how often a line occurs in the contents of a section map, all sections counted
RECURSIVE OccurrencesInSections(_, _, _)
OccurrencesInSections(sections, i, line) ==
    IF i > Len(sections) THEN 0
    ELSE Occurrences(sections[i].content, line)
         + OccurrencesInSections(sections, i + 1, line)

\* the place of the first header line of a text (0: none)
FirstHeader(text) == FirstIndex({i \in DOMAIN text : IsHeader(text[i])})

\* the non-empty lines before the first header line
RECURSIVE NonEmptyLines(_, _, _)
NonEmptyLines(text, i, last) ==
    IF i > last THEN <<>>
    ELSE (IF text[i] # <<>> THEN <<text[i]>> ELSE <<>>) \o NonEmptyLines(text, i + 1, last)

\* C11: every non-empty line that is no header is in exactly one section, as
\* often as the text has it, and the lines before the first header are the
\* HEADER section.
C11_SegmenterPartition ==
    extracted.status = "returned" =>
        /\ \A line \in Lines :
               (line # <<>> /\ ~IsHeader(line))
                   => OccurrencesInSections(extracted.sections, 1, line)
                          = Occurrences(resume_text, line)
        /\ HeaderText(extracted.sections)
               = NonEmptyLines(resume_text, 1,
                               IF FirstHeader(resume_text) = 0 THEN Len(resume_text)
                               ELSE FirstHeader(resume_text) - 1)

\* a text none of whose lines is a header
NoHeaderLine(text) == \A i \in DOMAIN text : ~IsHeader(text[i])

\* C12: a text without a header line gives the map with the one key HEADER,
\* whose text is the non-empty lines of the input in their order.
C12_NoHeaderGivesSingleHeader ==
    (extracted.status = "returned" /\ NoHeaderLine(resume_text)) =>
        /\ Len(extracted.sections) = 1
        /\ extracted.sections[1].name = HEADER
        /\ extracted.sections[1].content
               = NonEmptyLines(resume_text, 1, Len(resume_text))

\* a returned text without a header whose HEADER holds two different lines
C12_Witness ==
    /\ extracted.status = "returned"
    /\ NoHeaderLine(resume_text)
    /\ Len(resume_text) >= 3
    /\ Len(extracted.sections) = 1
    /\ Len(extracted.sections[1].content) >= 2
    /\ extracted.sections[1].content[1] # extracted.sections[1].content[2]

-----------------------------------------------------------------------------
(* Properties of the recommendation (SpecMatch) *)

\* the percentage of line 63 of a returned report is at least k
AtLeast(r, k) == r.total_weight > 0 /\ r.matched_weight * 100 >= k * r.total_weight

\* the label and the first sentence that the thresholds 85, 70, 50 give
TierOf(r) ==
    IF AtLeast(r, 85) THEN <<"Strong Match", "Strong overall match">>
    ELSE IF AtLeast(r, 70) THEN <<"Good Match", "Good match">>
    ELSE IF AtLeast(r, 50) THEN <<"Consider", "Moderate match">>
    ELSE <<"Not Recommended", "Low match">>

\* C13: a returned report carries the one label that the inclusive thresholds
\* 85, 70 and 50 give for its percentage, and its explanation starts with that
\* tier's sentence.
C13_TierByPercentage ==
    Returned =>
        /\ match_result.recommendation = TierOf(match_result)[1]
        /\ match_result.recommendation
               \in {"Strong Match", "Good Match", "Consider", "Not Recommended"}
        /\ Len(match_result.explanation) >= 1
        /\ match_result.explanation[1].text = TierOf(match_result)[2]

\* a report whose percentage is exactly 50 is labelled Consider
C13_Witness ==
    /\ Returned
    /\ match_result.total_weight > 0
    /\ match_result.matched_weight * 100 = 50 * match_result.total_weight
    /\ match_result.recommendation = "Consider"

\* reports of the three other tiers
C13_WitnessStrong == Returned /\ match_result.recommendation = "Strong Match"
C13_WitnessGood == Returned /\ match_result.recommendation = "Good Match"
C13_WitnessLow ==
    Returned /\ match_result.recommendation = "Not Recommended"
             /\ match_result.matched_weight > 0

\* a skill of the job description for which the lookup finds no match
Unmatched(req_skill) ==
    _find_skill_match(req_skill.name, resume_data.skills, resume_data, model).match = None

\* the unmatched skills of a list, in the list's order
RECURSIVE UnmatchedOf(_, _)
UnmatchedOf(jd_skills, i) ==
    IF i > Len(jd_skills) THEN <<>>
    ELSE (IF Unmatched(jd_skills[i]) THEN <<jd_skills[i]>> ELSE <<>>)
         \o UnmatchedOf(jd_skills, i + 1)

\* C14: missing_skills is the unmatched skills of the required list in that
\* list's order; an unmatched preferred skill is not in it, and total_weight
\* is the sum of the weights of all required and preferred skills.
C14_MissingAreUnmatchedRequired ==
    Returned =>
        /\ match_result.missing_skills = UnmatchedOf(job_description.required_skills, 1)
        /\ match_result.total_weight = TotalWeight(job_description)

\* a report with two missing required skills and an unmatched preferred skill
C14_Witness ==
    /\ Returned
    /\ Len(match_result.missing_skills) = 2
    /\ match_result.missing_skills[1] # match_result.missing_skills[2]
    /\ UnmatchedOf(job_description.preferred_skills, 1) # <<>>
    /\ match_result.total_weight > SumWeights(job_description.required_skills, 1)

-----------------------------------------------------------------------------
(* Properties of the confidence score (SpecMatch) *)

\* a contact record with a field that was found
ContactFound(resume) ==
    /\ resume.contact_info # None
    /\ \/ resume.contact_info[1].name # <<>>
       \/ resume.contact_info[1].email # <<>>

\* the number of satisfied completeness checks
SatisfiedChecks(resume, r) ==
      (IF ContactFound(resume) THEN 1 ELSE 0)
    + (IF resume.skills # <<>> THEN 1 ELSE 0)
    + (IF resume.education # <<>> THEN 1 ELSE 0)
    + (IF resume.experience # <<>> THEN 1 ELSE 0)
    + (IF Len(r.skill_matches) > 0 THEN 1 ELSE 0)

\* C15: confidence_score (hundredths) is k/5 for the k satisfied checks, a
\* contact record whose fields are all blank counting as empty.
C15_ConfidenceIsFractionOfChecks ==
    Returned => match_result.confidence_score
                    = 20 * SatisfiedChecks(resume_data, match_result)

\* the job descriptions the same resume is matched against a second time
OtherJobs ==
    {jd \in JobDescriptions : Len(jd.required_skills) <= 1 /\ jd.preferred_skills = <<>>}

\* the report of the same resume for another job description
ReportFor(jd) == match_resume(resume_data, jd, model)

\* C16: one resume gets the same confidence_score against any two job
\* descriptions.
C16_ConfidenceSameForAllJobs ==
    Returned =>
        \A jd \in OtherJobs :
            ReportFor(jd).status = "returned"
                => ReportFor(jd).confidence_score = match_result.confidence_score

\* C16 (amended): one resume gets the same confidence_score against two job
\* descriptions whenever both reports have a skill match or both have none,
\* and scores that differ by 0.2 otherwise.
C16_ConfidenceDependsOnlyOnAnyMatch ==
    Returned =>
        \A jd \in OtherJobs :
            ReportFor(jd).status = "returned"
                => ReportFor(jd).confidence_score
                       - (IF Len(ReportFor(jd).skill_matches) > 0 THEN 20 ELSE 0)
                   = match_result.confidence_score
                       - (IF Len(match_result.skill_matches) > 0 THEN 20 ELSE 0)

\* two reports of one resume that both have matches, of different kinds and
\* with different percentages, and a third that has none
C16_Witness ==
    /\ Returned
    /\ CountType(match_result.skill_matches, "related") > 0
    /\ \E jd \in OtherJobs :
          /\ ReportFor(jd).status = "returned"
          /\ CountType(ReportFor(jd).skill_matches, "related") = 0
          /\ CountType(ReportFor(jd).skill_matches, "direct") > 0
          /\ ReportFor(jd).match_percentage # match_result.match_percentage
    /\ \E jd \in OtherJobs :
          /\ ReportFor(jd).status = "returned"
          /\ ReportFor(jd).skill_matches = <<>>

-----------------------------------------------------------------------------
(* Properties of _normalize_skill (SpecNormalize) *)

\* the names "Node JS" and "nodejs" normalise to the same name, "Node.js" and
\* "node js" to different ones
C17_EquivalenceClasses ==
    normalized.status # "pending" =>
        /\ raw_skill = Str_Node_JS => normalized.once = _normalize_skill(Str_nodejs)
        /\ raw_skill = Str_nodejs => normalized.once = _normalize_skill(Str_Node_JS)
        /\ raw_skill = Str_Node_dot_js => normalized.once # _normalize_skill(Str_node_js)
        /\ raw_skill = Str_node_js => normalized.once # _normalize_skill(Str_Node_dot_js)

\* C17: normalising a normalised name returns it unchanged, "Node JS" and
\* "nodejs" normalise to the same name, "Node.js" and "node js" do not.
C17_NormalizeIdempotent ==
    /\ normalized.status = "twice" => normalized.twice = normalized.once
    /\ C17_EquivalenceClasses

-----------------------------------------------------------------------------
(* Properties of the field extractors (SpecExtract) *)

\* the education section is the institution line with a year range followed
\* by the degree line with a field and a GPA
TwoLineEducation ==
    /\ extracted.status = "returned"
    /\ FirstSection(extracted.sections, {"EDUCATION", "ACADEMIC", "QUALIFICATION"})
           = <<<<"MIT", "2019", "-", "2021">>,
               <<"BS", "in", "Physics", "GPA", ":", "3.8">>>>

\* C22: the two-line education entry gives one entry with the institution
\* without its dates, both years, the degree, the field without anything of
\* the GPA label, and the GPA.
C22_EducationOfTwoLines ==
    TwoLineEducation =>
        extracted.education =
            <<[institution |-> <<"MIT">>, degree |-> <<"BS">>,
               field_of_study |-> <<"Physics">>,
               start_date |-> <<"2019">>, end_date |-> <<"2021">>, gpa |-> <<"3.8">>]>>

\* a line with a year-like token or one of the four keywords
OpensGroup(line) == \E k \in DOMAIN line : line[k] \in YearWords \cup JobWords

\* the end of the group that starts at line b: the line before the next line
\* that opens a group
GroupEnd(lines, b) ==
    IF \E i \in (b + 1)..Len(lines) : OpensGroup(lines[i])
    THEN (CHOOSE i \in (b + 1)..Len(lines) :
              /\ OpensGroup(lines[i])
              /\ \A j \in (b + 1)..(i - 1) : ~OpensGroup(lines[j])) - 1
    ELSE Len(lines)

\* the consecutive groups of the lines from line b on
RECURSIVE GroupsFrom(_, _)
GroupsFrom(lines, b) ==
    IF b > Len(lines) THEN <<>>
    ELSE <<SubSeq(lines, b, GroupEnd(lines, b))>> \o GroupsFrom(lines, GroupEnd(lines, b) + 1)

\* the entry of a group: position, dates, company and description
EntryOf(group) ==
    [position |-> RStripDashes(SelectSeq(group[1], LAMBDA w : w \notin YearWords)),
     company |-> IF Len(group) >= 2 THEN group[2] ELSE <<>>,
     start_date |-> IF Len(SelectSeq(group[1], LAMBDA w : w \in YearWords)) >= 2
                    THEN <<SelectSeq(group[1], LAMBDA w : w \in YearWords)[1]>> ELSE <<>>,
     end_date |-> IF Len(SelectSeq(group[1], LAMBDA w : w \in YearWords)) >= 2
                  THEN <<SelectSeq(group[1], LAMBDA w : w \in YearWords)[2]>>
                  ELSE IF Len(SelectSeq(group[1], LAMBDA w : w \in YearWords)) = 1
                  THEN <<SelectSeq(group[1], LAMBDA w : w \in YearWords)[1]>>
                  ELSE <<>>,
     description |-> IF Len(group) >= 3 THEN SubSeq(group, 3, Len(group)) ELSE <<>>]

\* the entries of the groups that have a position or a company
RECURSIVE EntriesOf(_, _)
EntriesOf(groups, g) ==
    IF g > Len(groups) THEN <<>>
    ELSE (IF EntryOf(groups[g]).position # <<>> \/ EntryOf(groups[g]).company # <<>>
          THEN <<EntryOf(groups[g])>> ELSE <<>>)
         \o EntriesOf(groups, g + 1)

\* the lines of the experience section
ExperienceLines == FirstSection(extracted.sections, {"EXPERIENCE", "EMPLOYMENT", "WORK"})

C25_WitnessDescription ==
    /\ extracted.status = "returned"
    /\ Len(extracted.experience) = 1
    /\ extracted.experience[1].description # <<>>
    /\ extracted.experience[1].company # <<>>

-----------------------------------------------------------------------------
(* Properties of the suggestions (SpecMatch) *)

\* the names of the missing skills of a report that are in the related list
\* of category c
MissingIn(r, c) ==
    {_normalize_skill(r.missing_skills[i].name) : i \in DOMAIN r.missing_skills}
        \cap {NormalizedRelated[c][k] : k \in DOMAIN NormalizedRelated[c]}

\* the categories that hold two or more of the missing skills
ClusteredCategories(r) ==
    {c \in DOMAIN related_skills : Cardinality(MissingIn(r, c)) >= 2}

\* the suggestions of a report with the given text
SuggestionsWith(r, texts) ==
    {i \in DOMAIN r.improvement_suggestions : r.improvement_suggestions[i].text \in texts}

\* a report has, besides the suggestions about critical skills, experience
\* and education, one suggestion for every clustered category
SuggestsPerCategory(r) ==
    /\ Cardinality(DOMAIN r.improvement_suggestions
                     \ SuggestionsWith(r, {"Focus on acquiring", "Gain more experience",
                                           "Consider pursuing"}))
           = Cardinality(ClusteredCategories(r))
    /\ r.missing_skills # <<>>
          => Cardinality(SuggestionsWith(r, {"Focus on acquiring"})) = 1

\* a job description that requires kubernetes and aws, both of the cloud list
CloudJob ==
    [required_skills |-> <<RequiredSkill(Str_kubernetes, None, "required", 10),
                           RequiredSkill(Str_aws, None, "required", 10)>>,
     preferred_skills |-> <<>>, min_experience |-> None, education_level |-> None]

\* C24: a report has one suggestion for every category that holds two or more
\* of its missing skills, besides the one suggestion that lists the critical
\* missing skills; so has the report of a resume without skills for a job
\* that requires kubernetes and aws.
C24_OneSuggestionPerCategory ==
    Returned =>
        /\ SuggestsPerCategory(match_result)
        /\ resume_data.skills = <<>> => SuggestsPerCategory(ReportFor(CloudJob))

\* the label that the thresholds give for the percentage a report carries
\* (hundredths of a percent)
LabelOfReported(match_percentage) ==
    IF match_percentage >= 8500 THEN "Strong Match"
    ELSE IF match_percentage >= 7000 THEN "Good Match"
    ELSE IF match_percentage >= 5000 THEN "Consider"
    ELSE "Not Recommended"

\* a job whose first required skill carries 84.99506 % of the total weight
\* (weights 86.1 and 15.2)
UnevenJob ==
    [required_skills |-> <<RequiredSkill(Str_python, None, "required", 861),
                           RequiredSkill(Str_kubernetes, None, "required", 152)>>,
     preferred_skills |-> <<>>, min_experience |-> None, education_level |-> None]

\* C27: the recommendation of a returned report is the label of the
\* match_percentage the report carries, the value rounded to two decimals;
\* so is that of the report of the same resume for the uneven job.
C27_LabelAgreesWithReported ==
    Returned =>
        /\ match_result.recommendation = LabelOfReported(match_result.match_percentage)
        /\ (ReportFor(UnevenJob).status = "returned" =>
                ReportFor(UnevenJob).recommendation
                    = LabelOfReported(ReportFor(UnevenJob).match_percentage))

\* the matches of a list's skills, each looked up in the whole list of
\* resume skills, in the list's order
RECURSIVE MatchesOf(_, _)
MatchesOf(jd_skills, i) ==
    IF i > Len(jd_skills) THEN <<>>
    ELSE (IF Unmatched(jd_skills[i]) THEN <<>>
          ELSE <<_find_skill_match(jd_skills[i].name, resume_data.skills, resume_data,
                                   model).match[1]>>)
         \o MatchesOf(jd_skills, i + 1)

\* C28: every required skill gives one entry, of skill_matches or of
\* missing_skills, and every preferred skill at most one, of skill_matches;
\* the two lists together are no longer than the two lists of the job; each
\* skill is looked up in all the resume skills, whatever matched before.
C28_OneOutcomePerSkill ==
    Returned =>
        /\ Len(match_result.missing_skills) <= Len(job_description.required_skills)
        /\ Len(match_result.skill_matches) + Len(match_result.missing_skills)
               >= Len(job_description.required_skills)
        /\ Len(match_result.skill_matches) + Len(match_result.missing_skills)
               <= Len(job_description.required_skills)
                  + Len(job_description.preferred_skills)
        /\ match_result.skill_matches
               = MatchesOf(job_description.required_skills, 1)
                 \o MatchesOf(job_description.preferred_skills, 1)

\* one resume skill reported as the match of two skills of the job
C28_Witness ==
    /\ Returned
    /\ Len(resume_data.skills) = 1
    /\ Len(match_result.skill_matches) = 2
    /\ match_result.missing_skills = <<>>

\* an unmatched preferred skill leaves no entry
C28_WitnessPreferred ==
    /\ Returned
    /\ Len(job_description.preferred_skills) = 1
    /\ Len(match_result.skill_matches) + Len(match_result.missing_skills)
           = Len(job_description.required_skills)
    /\ Len(job_description.required_skills) = 2

-----------------------------------------------------------------------------
(* Properties of _get_skill_years (SpecYears) *)

\* both dates of an entry end in a year
HasYears(exp) ==
    /\ exp.start_date # None /\ exp.start_date[1].tokens # <<>>
    /\ exp.start_date[1].tokens[Len(exp.start_date[1].tokens)].isNum
    /\ exp.end_date # None /\ exp.end_date[1].tokens # <<>>
    /\ exp.end_date[1].tokens[Len(exp.end_date[1].tokens)].isNum

\* the entry's description names the skill
Mentions(exp, name) ==
    /\ exp.description # None
    /\ IsSubstring(_normalize_skill(name), _normalize_skill(exp.description[1]))

\* the sum of end year - start year over the entries that name the skill
RECURSIVE AttributedYears(_, _, _)
AttributedYears(experience, i, name) ==
    IF i > Len(experience) THEN 0
    ELSE (IF Mentions(experience[i], name) /\ HasYears(experience[i])
          THEN experience[i].end_date[1].tokens[Len(experience[i].end_date[1].tokens)].val
               - experience[i].start_date[1].tokens[Len(experience[i].start_date[1].tokens)].val
          ELSE 0)
         + AttributedYears(experience, i + 1, name)

\* C23: _get_skill_years never raises and returns the sum of end year - start
\* year over the entries whose description names the skill, entries without
\* two year tokens adding nothing; the result is None exactly when the sum is 0.
C23_YearsAreTheSum ==
    skill_years.status = "done" =>
        /\ skill_years.exc = "none"
        /\ AttributedYears(years_resume.experience, 1, years_skill) = 0
              => skill_years.years = None
        /\ AttributedYears(years_resume.experience, 1, years_skill) # 0
              => skill_years.years
                     = Some(AttributedYears(years_resume.experience, 1, years_skill))

-----------------------------------------------------------------------------
(* Properties of concurrent uploads (SpecConcurrent) *)

\* C21: two concurrent upload_resume calls never share a path, a call
\* extracts only the upload it saved itself, no call removes a file another
\* call is still using, and every call returns its record.
C21_CallsAreIsolated ==
    /\ \A c \in Callers : \A o \in Callers \ {c} :
          calls[c].file_path # NoPath => calls[c].file_path # calls[o].file_path
    /\ \A c \in Callers :
          /\ calls[c].text_of \in {"none", c}
          /\ ~calls[c].removed_in_use
          /\ calls[c].outcome \in {"none", "returned"}

-----------------------------------------------------------------------------
(* Properties of the tag handlers (SpecTags) *)

\* the names of a list of tags, in the list's order
NamesOf(tags) == [i \in DOMAIN tags |-> tags[i].name]

\* no two tags of the list have the same name
DistinctNames(tags) ==
    \A i, j \in DOMAIN tags : i < j => tags[i].name # tags[j].name

\* the names of a request that the list lacks, each once, in the order of
\* their first occurrence
RECURSIVE FreshNames(_, _, _)
FreshNames(names, i, held) ==
    IF i > Len(names) THEN <<>>
    ELSE IF names[i] \in held THEN FreshNames(names, i + 1, held)
    ELSE <<names[i]>> \o FreshNames(names, i + 1, held \cup {names[i]})

\* the list that the last call left in the resume it addressed
StoredTags == resumes_collection[tag_call.resume_id]

\* C30: no stored resume holds two tags of the same name; an add leaves the
\* list it found in place and appends the names the list lacked, each once
\* (nothing for a name already held); a remove leaves the tags of every other
\* name, in order.
C30_TagNamesUnique ==
    /\ \A r \in DOMAIN resumes_collection : DistinctNames(resumes_collection[r])
    /\ (tag_call.op = "add" /\ tag_call.status = "updated") =>
           /\ SubSeq(StoredTags, 1, Len(tag_call.before)) = tag_call.before
           /\ NamesOf(StoredTags)
                  = NamesOf(tag_call.before)
                    \o FreshNames(tag_call.names, 1,
                                  {tag_call.before[k].name : k \in DOMAIN tag_call.before})
    /\ (tag_call.op = "remove" /\ tag_call.status = "updated") =>
           StoredTags = WithoutTag(tag_call.before, tag_call.names[1])

====
